---- MODULE Spec2Model ----
(***************************************************************************)
(* A model of pycryptol (src/cryptol/cryptol.py): the value codec          *)
(* (__to_value / __from_value), the result types (ProofResult, SatResult,  *)
(* AllSatResult), and the session / module-connection protocol over ZeroMQ *)
(* REQ sockets, including the interrupt path of __try_recv_json.           *)
(*                                                                         *)
(* Seven specifications share the module:                                  *)
(*   SpecCodec   local values are built, encoded and decoded;              *)
(*   SpecResult  result objects are constructed from arbitrary arguments;  *)
(*   SpecBind    one module is loaded from an arbitrary browse reply and   *)
(*               its declarations are looked up;                           *)
(*   SpecCalls   modules are loaded and called, the server answering with  *)
(*               any tag and any payload;                                  *)
(*   SpecExit    modules are loaded, used, interrupted, exited, collected; *)
(*   SpecLocal   one module is called with every kind of expression     *)
(*               input, well formed or not, and every option value;        *)
(*   Spec        a session loads modules and issues calls while the        *)
(*               environment (server, signals, garbage collector) acts.    *)
(***************************************************************************)
EXTENDS Integers, Sequences, FiniteSets, TLC

VARIABLES
    \* ---- value codec (SpecCodec)
    cIn,        \* the local (Python) value handed to __to_value
    cWire,      \* the wire (JSON) value: encoded from cIn or sent by the server
    cOut,       \* what __from_value returned for cWire
    cPc,        \* "in" | "wire" | "out"
    cEnc,       \* TRUE iff cWire is __to_value(cIn)
    \* ---- result types (SpecResult)
    rObj,       \* the object the last constructor call produced
    rArgs,      \* the arguments of the last constructor call
    \* ---- session and module connections (Spec)
    server,         \* Cryptol.__server: "none" (False) or the process' state
    mainReq,        \* Cryptol.__main_req, the control REQ socket
    ctxClosed,      \* Cryptol.__ctx.closed
    loaded_modules, \* Cryptol.__loaded_modules: weak references, in order
    mods,           \* the module objects constructed so far
    nloads,         \* load_module / prelude calls made so far
    nports,         \* worker ports the server has handed out
    pc,             \* where the caller's thread is blocked, or "idle"
    cur,            \* the call in progress
    result,         \* how the last call ended
    hlog,           \* socket operations of __try_recv_json's handler
    intrCount,      \* interruptions delivered so far
    exitCalls,      \* Cryptol.exit() calls made so far
    world           \* what the server may answer

codecVars == <<cIn, cWire, cOut, cPc, cEnc>>
resVars == <<rObj, rArgs>>
sessVars == <<server, mainReq, ctxClosed, loaded_modules, exitCalls>>
callVars == <<pc, cur, result, hlog>>
protoVars == <<server, mainReq, ctxClosed, loaded_modules, mods, nloads, nports,
               pc, cur, result, hlog, intrCount, exitCalls, world>>
vars == <<cIn, cWire, cOut, cPc, cEnc, rObj, rArgs,
          server, mainReq, ctxClosed, loaded_modules, mods, nloads, nports,
          pc, cur, result, hlog, intrCount, exitCalls, world>>

(***************************************************************************)
(* Bounds of the model.                                                    *)
(***************************************************************************)
MaxBvWidth == 2      \* widths of the bit-vectors met in local values
MaxDepth == 2        \* nesting depth of local and wire aggregates
MaxWordWidth == 4    \* widths of the `word` wire values the server sends
MaxWordValue == 19   \* magnitudes of the `word` wire values the server sends
MaxModules == 2      \* load_module / prelude calls per session
MaxInterrupts == 2   \* interruptions the environment delivers
MaxExits == 2        \* Cryptol.exit() calls per session
MaxDecls == 2        \* declarations in a browse reply

RECURSIVE Pow2(_)
Pow2(n) == IF n = 0 THEN 1 ELSE 2 * Pow2(n - 1)

(***************************************************************************)
(* Local (Python) values.  Every value is a record tagged by k:            *)
(*   bool  (bit)            BitVector as bv (size, intVal)                 *)
(*   tuple / list (elts)    dict (items: a function from field names)      *)
(*   none  (Python None)    str (a value neither codec direction accepts)  *)
(***************************************************************************)
PyBool(b) == [k |-> "bool", bit |-> b]
PyBV(w, n) == [k |-> "bv", size |-> w, intVal |-> n]
PyTuple(s) == [k |-> "tuple", elts |-> s]
PyList(s) == [k |-> "list", elts |-> s]
PyDict(f) == [k |-> "dict", items |-> f]
PyNone == [k |-> "none"]
PyInt(n) == [k |-> "int", v |-> n]
PyStr == [k |-> "str"]
PyRaise(e) == [k |-> "raise", exc |-> e]

IsRaise(v) == "exc" \in DOMAIN v

\* int(pyval) and pyval.length() of a BitVector.
BVInt(bv) == bv.intVal
BVLength(bv) == bv.size

\* BitVector(intVal=n, size=w): the constructor refuses a magnitude that
\* does not fit the size.
BitVectorOfInt(n, w) ==
    IF n >= Pow2(w) THEN PyRaise("ValueError") ELSE PyBV(w, n)

\* BitVector(bitlist=bits): the bits packed in order, most significant first.
RECURSIVE BitsToInt(_)
BitsToInt(bits) ==
    IF bits = <<>> THEN 0
    ELSE 2 * BitsToInt(SubSeq(bits, 1, Len(bits) - 1))
         + (IF bits[Len(bits)].bit THEN 1 ELSE 0)

BitVectorOfBits(bits) == PyBV(Len(bits), BitsToInt(bits))

(***************************************************************************)
(* Wire (JSON) values: a record with the one key the codec dispatches on.  *)
(***************************************************************************)
WBit(b) == [bit |-> b]
WRecord(fs) == [record |-> fs]
WTuple(s) == [tuple |-> s]
WSeq(w, s) == [sequence |-> [isWord |-> w, elements |-> s]]
WWord(w, n) == [word |-> [bitvector |-> [width |-> w, value |-> n]]]
WFun(h) == [function |-> h]
WNone == [nothing |-> TRUE]

\* The first exception a list comprehension over s meets, if any.
FirstRaise(s) ==
    IF \E i \in DOMAIN s : IsRaise(s[i])
    THEN s[CHOOSE i \in DOMAIN s : IsRaise(s[i]) /\ \A j \in 1..(i - 1) : ~IsRaise(s[j])]
    ELSE PyNone

AnyRaise(s) == \E i \in DOMAIN s : IsRaise(s[i])

\* dict.items(): the fields in the order the dictionary yields them.
DictItems(f) ==
    CHOOSE s \in [1..Cardinality(DOMAIN f) -> DOMAIN f] :
        \A i, j \in DOMAIN s : i # j => s[i] # s[j]

(***************************************************************************)
(* _CryptolModule.__to_value: local value -> wire value.                   *)
(***************************************************************************)
\* A list encoded as a word sequence.
EncodeListAsWord(vs) == WSeq(TRUE, vs)

\* The encodings of a list and of a BitVector.
EncodeList(vs) == WSeq(FALSE, vs)
EncodeBitVector(pyval) == WWord(BVLength(pyval), BVInt(pyval))

RECURSIVE to_value(_)
to_value(pyval) ==
    IF pyval.k = "bool" THEN WBit(pyval.bit)
    ELSE IF pyval.k = "dict" THEN
        LET ks == DictItems(pyval.items)
            vs == [i \in DOMAIN ks |-> to_value(pyval.items[ks[i]])]
        IN  IF AnyRaise(vs) THEN FirstRaise(vs)
            ELSE WRecord([i \in DOMAIN ks |-> <<[Name |-> ks[i]], vs[i]>>])
    ELSE IF pyval.k = "tuple" THEN
        LET vs == [i \in DOMAIN pyval.elts |-> to_value(pyval.elts[i])]
        IN  IF AnyRaise(vs) THEN FirstRaise(vs) ELSE WTuple(vs)
    ELSE IF pyval.k = "list" THEN
        LET vs == [i \in DOMAIN pyval.elts |-> to_value(pyval.elts[i])]
        IN  IF AnyRaise(vs) THEN FirstRaise(vs) ELSE EncodeList(vs)
    ELSE IF pyval.k = "bv" THEN EncodeBitVector(pyval)
    ELSE PyRaise("ValueError")

(***************************************************************************)
(* _CryptolModule.__from_value: wire value -> local value.  The tests are  *)
(* made in the order of the source.                                        *)
(***************************************************************************)
\* The word branch testing the magnitude, not the width.
FromWordTestsValue(val) ==
    LET bv == val.word.bitvector
        intval == bv.value
        width == bv.width
    IN  IF intval = 0 THEN PyNone
        ELSE BitVectorOfInt(intval % Pow2(width), width)

\* The word branch without the reduction of the magnitude.
FromWordNoReduction(val) ==
    LET bv == val.word.bitvector
        intval == bv.value
        width == bv.width
    IN  IF width = 0 THEN PyNone
        ELSE BitVectorOfInt(intval, width)

FromWord(val) ==
    LET bv == val.word.bitvector
        intval == bv.value
        width == bv.width
    IN  IF width = 0 THEN PyNone
        ELSE BitVectorOfInt(intval % Pow2(width), width)

\* The function branch making a callable of the handle it finds.
FromFunctionAsCallable(val) ==
    [k |-> "handle", h |-> val.function, m |-> 0, kind |-> "static"]

\* The function branch: the value is dropped.
FromFunction(val) == PyNone

RECURSIVE from_value(_)
from_value(val) ==
    IF "bit" \in DOMAIN val THEN PyBool(val.bit)
    ELSE IF "record" \in DOMAIN val THEN
        LET fs == val.record
            vs == [i \in DOMAIN fs |-> from_value(fs[i][2])]
            names == {fs[i][1].Name : i \in DOMAIN fs}
            \* rec[fname] = fval, a later field overwriting an earlier one
            last(n) == CHOOSE i \in DOMAIN fs :
                           /\ fs[i][1].Name = n
                           /\ \A j \in DOMAIN fs : fs[j][1].Name = n => j <= i
        IN  IF AnyRaise(vs) THEN FirstRaise(vs)
            ELSE PyDict([n \in names |-> vs[last(n)]])
    ELSE IF "tuple" \in DOMAIN val THEN
        LET vs == [i \in DOMAIN val.tuple |-> from_value(val.tuple[i])]
        IN  IF AnyRaise(vs) THEN FirstRaise(vs) ELSE PyTuple(vs)
    ELSE IF "sequence" \in DOMAIN val /\ val.sequence.isWord THEN
        LET vs == [i \in DOMAIN val.sequence.elements |->
                      from_value(val.sequence.elements[i])]
        IN  IF AnyRaise(vs) THEN FirstRaise(vs) ELSE BitVectorOfBits(vs)
    ELSE IF "sequence" \in DOMAIN val /\ ~val.sequence.isWord THEN
        LET vs == [i \in DOMAIN val.sequence.elements |->
                      from_value(val.sequence.elements[i])]
        IN  IF AnyRaise(vs) THEN FirstRaise(vs) ELSE PyList(vs)
    ELSE IF "word" \in DOMAIN val THEN FromWord(val)
    ELSE IF "function" \in DOMAIN val THEN FromFunction(val)
    ELSE PyRaise("PycryptolInternalError")

(***************************************************************************)
(* The result types.  A constructor either raises or yields the object;    *)
(* the accessors read its two private fields.                              *)
(***************************************************************************)
ProofResult(valid, cex) ==
    IF valid /\ cex # PyNone THEN PyRaise("PycryptolInternalError")
    ELSE [cls |-> "ProofResult", flag |-> valid, payload |-> cex]

SatResult(sat, args) ==
    IF sat /\ args = PyNone THEN PyRaise("PycryptolInternalError")
    ELSE [cls |-> "SatResult", flag |-> sat, payload |-> args]

AllSatResult(sat, argss) ==
    IF sat /\ argss = PyNone THEN PyRaise("PycryptolInternalError")
    ELSE [cls |-> "AllSatResult", flag |-> sat, payload |-> argss]

NoObject == [cls |-> "none"]

is_valid(o) == o.flag
has_counterexample(o) == o.payload # PyNone
is_sat(o) == o.flag
has_assignment(o) == o.payload # PyNone

(***************************************************************************)
(* Inputs of the codec and of the constructors.                            *)
(***************************************************************************)
FieldNames == {"a", "b"}

\* BitVector objects: the magnitude always fits the size.
BitVectors == UNION {{PyBV(w, n) : n \in 0..(Pow2(w) - 1)} : w \in 0..MaxBvWidth}

Atoms ==
    {PyBool(TRUE), PyBool(FALSE), PyNone, PyStr,
     PyTuple(<<>>), PyList(<<>>), PyDict(<<>>)} \cup BitVectors

\* The values an aggregate is filled up with.
Sibs == {PyBool(TRUE), PyBV(MaxBvWidth, 1)}

RECURSIVE Depth(_)
Depth(v) ==
    IF v.k \in {"tuple", "list"} THEN
        IF v.elts = <<>> THEN 1
        ELSE 1 + (CHOOSE d \in {Depth(v.elts[i]) : i \in DOMAIN v.elts} :
                     \A i \in DOMAIN v.elts : Depth(v.elts[i]) <= d)
    ELSE IF v.k = "dict" THEN
        IF DOMAIN v.items = {} THEN 1
        ELSE 1 + (CHOOSE d \in {Depth(v.items[n]) : n \in DOMAIN v.items} :
                     \A n \in DOMAIN v.items : Depth(v.items[n]) <= d)
    ELSE 0

\* The aggregates one level above v.
Wraps(v) ==
    {PyTuple(<<v>>), PyList(<<v>>), PyDict([n \in {"a"} |-> v])}
    \cup {PyTuple(<<v, s>>) : s \in Sibs} \cup {PyTuple(<<s, v>>) : s \in Sibs}
    \cup {PyList(<<v, s>>) : s \in Sibs} \cup {PyList(<<s, v>>) : s \in Sibs}
    \cup {PyDict([n \in FieldNames |-> IF n = "a" THEN v ELSE s]) : s \in Sibs}
    \cup {PyDict([n \in FieldNames |-> IF n = "b" THEN v ELSE s]) : s \in Sibs}

\* A local value the round trip is stated for: booleans, bit-vectors of
\* width >= 1, and tuples, records and sequences of such.
RECURSIVE Representable(_)
Representable(v) ==
    IF v.k = "bool" THEN TRUE
    ELSE IF v.k = "bv" THEN v.size >= 1
    ELSE IF v.k \in {"tuple", "list"} THEN
        \A i \in DOMAIN v.elts : Representable(v.elts[i])
    ELSE IF v.k = "dict" THEN
        \A n \in DOMAIN v.items : Representable(v.items[n])
    ELSE FALSE

\* What the server may put on the wire as a value.
ServerWires ==
    {WWord(w, n) : w \in 0..MaxWordWidth, n \in 0..MaxWordValue}
    \cup {WFun("h"), WBit(TRUE), [unknown |-> TRUE],
          WSeq(TRUE, <<>>), WSeq(TRUE, <<WBit(TRUE), WBit(FALSE)>>)}

RECURSIVE WireDepth(_)
WireDepth(w) ==
    LET sub == IF "tuple" \in DOMAIN w THEN w.tuple
               ELSE IF "record" \in DOMAIN w
                    THEN [i \in DOMAIN w.record |-> w.record[i][2]]
               ELSE IF "sequence" \in DOMAIN w /\ ~w.sequence.isWord
                    THEN w.sequence.elements
               ELSE <<>>
        agg == \E key \in {"tuple", "record"} : key \in DOMAIN w
    IN  IF sub = <<>> THEN (IF agg THEN 1 ELSE 0)
        ELSE 1 + (CHOOSE d \in {WireDepth(sub[i]) : i \in DOMAIN sub} :
                     \A i \in DOMAIN sub : WireDepth(sub[i]) <= d)

WireWraps(w) ==
    {WTuple(<<w>>), WTuple(<<w, WBit(TRUE)>>), WSeq(FALSE, <<w>>),
     WRecord(<<<<[Name |-> "a"], w>>>>),
     WRecord(<<<<[Name |-> "a"], WBit(FALSE)>>, <<[Name |-> "a"], w>>>>)}

Unset == [k |-> "unset"]

(***************************************************************************)
(* SpecCodec: a caller builds a local value and encodes it, or the server  *)
(* sends a wire value; the wire value is then decoded.                     *)
(***************************************************************************)
InitRes == rObj = NoObject /\ rArgs = NoObject

InitCodecVars ==
    /\ cIn \in Atoms
    /\ cWire = WNone
    /\ cOut = Unset
    /\ cPc = "in"
    /\ cEnc = FALSE

CGrow ==
    /\ cPc = "in"
    /\ Depth(cIn) < MaxDepth
    /\ \E v \in Wraps(cIn) : cIn' = v
    /\ UNCHANGED <<cWire, cOut, cPc, cEnc, resVars, protoVars>>

CEncode ==
    /\ cPc = "in"
    /\ cWire' = to_value(cIn)
    /\ cEnc' = TRUE
    /\ cPc' = "wire"
    /\ UNCHANGED <<cIn, cOut, resVars, protoVars>>

CServerWire ==
    /\ cPc = "in"
    /\ cIn = PyNone
    /\ \E w \in ServerWires : cWire' = w
    /\ cEnc' = FALSE
    /\ cPc' = "wire"
    /\ UNCHANGED <<cIn, cOut, resVars, protoVars>>

CWrapWire ==
    /\ cPc = "wire"
    /\ ~cEnc
    /\ WireDepth(cWire) < MaxDepth
    /\ \E w \in WireWraps(cWire) : cWire' = w
    /\ UNCHANGED <<cIn, cOut, cPc, cEnc, resVars, protoVars>>

CDecode ==
    /\ cPc = "wire"
    /\ ~IsRaise(cWire)
    /\ cOut' = from_value(cWire)
    /\ cPc' = "out"
    /\ UNCHANGED <<cIn, cWire, cEnc, resVars, protoVars>>

NextCodec == CGrow \/ CEncode \/ CServerWire \/ CWrapWire \/ CDecode

(***************************************************************************)
(* SpecResult: result objects are constructed from any combination of      *)
(* flag and payload.                                                       *)
(***************************************************************************)
DecodedAtoms == {PyBool(TRUE), PyBool(FALSE)} \cup {v \in BitVectors : v.size >= 1}

ArgTuples ==
    {PyTuple(<<>>)} \cup {PyTuple(<<x>>) : x \in DecodedAtoms}
    \cup {PyTuple(<<x, y>>) : x \in DecodedAtoms, y \in DecodedAtoms}

Payloads == {PyNone} \cup ArgTuples

ListPayloads == {PyNone, PyList(<<>>)} \cup {PyList(<<t>>) : t \in ArgTuples}

NewProofResult ==
    \E valid \in BOOLEAN, cex \in Payloads :
        /\ rObj' = ProofResult(valid, cex)
        /\ rArgs' = [cls |-> "ProofResult", flag |-> valid, payload |-> cex]
        /\ UNCHANGED <<codecVars, protoVars>>

NewSatResult ==
    \E sat \in BOOLEAN, args \in Payloads :
        /\ rObj' = SatResult(sat, args)
        /\ rArgs' = [cls |-> "SatResult", flag |-> sat, payload |-> args]
        /\ UNCHANGED <<codecVars, protoVars>>

NewAllSatResult ==
    \E sat \in BOOLEAN, argss \in ListPayloads :
        /\ rObj' = AllSatResult(sat, argss)
        /\ rArgs' = [cls |-> "AllSatResult", flag |-> sat, payload |-> argss]
        /\ UNCHANGED <<codecVars, protoVars>>

(***************************************************************************)
(* Strings the library inspects are sequences of characters.               *)
(***************************************************************************)
Letters ==
    {"a", "b", "c", "d", "e", "f", "g", "h", "i", "j", "k", "l", "m", "n",
     "o", "p", "q", "r", "s", "t", "u", "v", "w", "x", "y", "z"}
Digits == {"0", "1", "2", "3", "4", "5", "6", "7", "8", "9"}

\* _CryptolModule.__identifier: ^[a-zA-Z_]\w*\Z
IsIdentifier(name) ==
    /\ Len(name) >= 1
    /\ name[1] \in Letters \cup {"_"}
    /\ \A i \in 2..Len(name) : name[i] \in Letters \cup Digits \cup {"_"}

\* string.count(template, '?')
CountHoles(str) == Cardinality({i \in DOMAIN str : str[i] = "?"})

\* The attributes a module object has before any declaration is bound:
\* hasattr(self, name) holds for the methods of _CryptolModule.
ClassAttrs ==
    {<<"e", "v", "a", "l">>, <<"t", "y", "p", "e", "o", "f">>,
     <<"c", "h", "e", "c", "k">>, <<"e", "x", "h", "a", "u", "s", "t">>,
     <<"p", "r", "o", "v", "e">>, <<"s", "a", "t">>,
     <<"s", "e", "t", "o", "p", "t">>, <<"b", "r", "o", "w", "s", "e">>,
     <<"e", "x", "i", "t">>, <<"d", "e", "c", "l">>,
     <<"t", "o", "_", "e", "x", "p", "r">>,
     <<"t", "e", "m", "p", "l", "a", "t", "e">>}

(***************************************************************************)
(* _CryptolModule.to_expr and _CryptolModule.template.  The rendering is   *)
(* kept as the fact that matters to the protocol: whether it raises.       *)
(***************************************************************************)
RECURSIVE ToExprRaises(_)
ToExprRaises(pyval) ==
    IF pyval.k \in {"bool", "int", "bv"} THEN FALSE
    ELSE IF pyval.k = "dict" THEN
        \E n \in DOMAIN pyval.items : ToExprRaises(pyval.items[n])
    ELSE IF pyval.k \in {"tuple", "list"} THEN
        \E i \in DOMAIN pyval.elts : ToExprRaises(pyval.elts[i])
    ELSE TRUE

\* The texts of the TypeErrors raised before anything is sent.
NotAString == "Expected Cryptol expression as string"
TooFewArgs == "not all arguments converted during Cryptol string templating"
TooManyArgs == "not enough arguments for Cryptol template string"
NoRendering == "Unable to convert Python value into Cryptol expression"

\* if not isinstance(args, tuple): args = (args,)
TemplateArgs(args) == IF args.k # "tuple" THEN <<args>> ELSE args.elts

\* template with the two counts compared once, for inequality in one
\* direction only.
TemplateFewOnly(str, args) ==
    LET holes == CountHoles(str)
        targs == TemplateArgs(args)
    IN  IF Len(targs) < holes THEN TooFewArgs
        ELSE IF \E i \in 1..holes : ToExprRaises(targs[i]) THEN NoRendering
        ELSE "ok"

\* "ok", or the text of the TypeError template(template, args) raises.
Template(str, args) ==
    LET holes == CountHoles(str)
        targs == TemplateArgs(args)
    IN  IF Len(targs) < holes THEN TooFewArgs
        ELSE IF Len(targs) > holes THEN TooManyArgs
        ELSE IF \E i \in DOMAIN targs : ToExprRaises(targs[i]) THEN NoRendering
        ELSE "ok"

\* The local part of __tag_expr: "ok", or the text of the TypeError raised
\* before anything is sent.
TagExprLocal(inp) ==
    IF ~inp.isstr THEN NotAString ELSE Template(inp.expr, inp.args)

\* The arguments of a call that takes an expression; NoInput for the others.
NoInput == [isstr |-> TRUE, expr |-> <<>>, args |-> [k |-> "none"]]

(***************************************************************************)
(* ZeroMQ REQ sockets.  pend holds the requests sent whose reply has not   *)
(* been received.  A REQ socket accepts a send only when no reply is       *)
(* outstanding (else EFSM), and nothing once closed.                       *)
(***************************************************************************)
NewSocket == [closed |-> FALSE, pend |-> <<>>]
NoSocket == [closed |-> TRUE, pend |-> <<>>]

\* A request: its tag, and the fields some tags carry.
Msg(t) == [tag |-> t, port |-> 0, key |-> "-", value |-> "-", path |-> "-"]
MsgPort(t, p) == [Msg(t) EXCEPT !.port = p]
MsgOpt(k, v) == [Msg("setOpt") EXCEPT !.key = k, !.value = v]

\* The constructor asking for the prelude whatever the file path.
MsgLoadPreludeOnly(path) == Msg("loadPrelude")

\* The load request of the constructor: loadPrelude when filepath is None
\* ("-"), else loadModule with the file path.
MsgLoad(path) ==
    IF path = "-" THEN Msg("loadPrelude")
    ELSE [Msg("loadModule") EXCEPT !.path = path]

\* A socket that accepts a send whatever it still awaits (a DEALER socket).
DealerCanSend(s) == ~s.closed

ReqCanSend(s) == ~s.closed /\ s.pend = <<>>

ReqSend(s, msg) == [s EXCEPT !.pend = Append(@, msg)]

ReqRecv(s) == [s EXCEPT !.pend = Tail(@)]

\* close(): the socket and whatever it still awaited are gone.
ReqClose(s) == [s EXCEPT !.closed = TRUE, !.pend = <<>>]

(***************************************************************************)
(* Module objects, calls and results.                                      *)
(***************************************************************************)
\* st: "none" (not constructed), "init" (under construction), "live",
\*     "garbage" (construction raised: unreachable, not yet collected),
\*     "gone" (collected: the weak reference is dead)
\* exitN counts the exit notices sent on req; cat remembers the declarations
\* of the browse reply the constructor read (the object does not keep them).
NoModule ==
    [st |-> "none", port |-> 0, req |-> NoSocket, exitN |-> 0,
     decls |-> <<>>, members |-> <<>>, cat |-> <<>>]

NewModule(port) ==
    [st |-> "init", port |-> port, req |-> NewSocket, exitN |-> 0,
     decls |-> <<>>, members |-> <<>>, cat |-> <<>>]

ModuleIds == 1..MaxModules

\* A reply: its tag, and the fields some tags carry (value, handle,
\* declarations / counterexample / assignments, a null counterexample, the
\* text under 'pp' or 'message').
Rep(t) ==
    [tag |-> t, val |-> WNone, handle |-> "-", list |-> <<>>, null |-> TRUE,
     text |-> "-"]

NoRep == Rep("-")

\* rep: the last reply the call received.
NoCall ==
    [op |-> "-", m |-> 0, phase |-> "-", todo |-> <<>>, loc |-> "-",
     inp |-> NoInput,
     fail |-> 0, opt |-> "-", prover |-> "-", rep |-> NoRep]

\* fail: the interruption that made a guarded receive of the call fail, or 0.
\* op, opt, phase, rep: the operation, its argument, the request it made
\* last and the last reply it received.
NoResult ==
    [kind |-> "none", val |-> PyNone, m |-> 0, fail |-> 0,
     op |-> "-", opt |-> "-", phase |-> "-", rep |-> NoRep, inp |-> NoInput]

\* msg: the text the exception was constructed with, where it is a reply's.
Exc(name, id) == [exc |-> name, id |-> id, msg |-> "-"]

\* The history of call c a result carries, in the worlds that record it.
Traced(c) == IF world.trace THEN c ELSE NoCall

Ret(c, v) ==
    [kind |-> "ret", val |-> v, m |-> c.m, fail |-> c.fail,
     op |-> Traced(c).op, opt |-> Traced(c).opt, phase |-> Traced(c).phase,
     rep |-> Traced(c).rep, inp |-> Traced(c).inp]
Raise(c, name) ==
    [kind |-> "raise", val |-> Exc(name, 0), m |-> c.m, fail |-> c.fail,
     op |-> Traced(c).op, opt |-> Traced(c).opt, phase |-> Traced(c).phase,
     rep |-> Traced(c).rep, inp |-> Traced(c).inp]
\* The classes behind two conditions the callers tell apart by where they
\* arise: a refused load request, and a name decl() does not know.
ModuleLoadError == "CryptolError"
NotInScope == "CryptolError"

\* raise name(text)
RaiseMsg(c, name, text) == [Raise(c, name) EXCEPT !.val.msg = text]
RaiseIntr(c, id) ==
    [kind |-> "raise", val |-> Exc("KeyboardInterrupt", id), m |-> c.m,
     fail |-> c.fail,
     op |-> Traced(c).op, opt |-> Traced(c).opt, phase |-> Traced(c).phase,
     rep |-> Traced(c).rep, inp |-> Traced(c).inp]

\* A function of module m made by __from_funvalue for the server's handle h:
\*   "static"   static_clos, called with the argument;
\*   "method"   clos set on the class and looked up on the module object,
\*              called with the argument;
\*   "unbound"  clos itself, which expects the module object and the argument.
HandleOfFirst(h, m, kind) == [k |-> "handle", h |-> h, m |-> 1, kind |-> kind]
Handle(h, m, kind) == [k |-> "handle", h |-> h, m |-> m, kind |-> kind]
ModuleRef(m) == [k |-> "module", m |-> m]
Raw(rep) == [k |-> "raw", tag |-> rep.tag]

\* A declaration of a browse reply: ifDeclName, ifDeclInfix, sVars.
Decl(name, infix, tvars) == [name |-> name, infix |-> infix, tvars |-> tvars]

\* The call c is over and the caller sees res.  A module whose construction
\* raised is never handed to the caller; one whose construction returned is
\* recorded by load_module / prelude.
Finish(ms, c, res) ==
    /\ mods' = IF c.op = "load" /\ c.m \in ModuleIds /\ ms[c.m].st = "init"
               THEN [ms EXCEPT ![c.m].st =
                        IF res.kind = "raise" THEN "garbage" ELSE "live"]
               ELSE ms
    /\ loaded_modules' =
           IF c.op = "load" /\ res.kind = "ret"
           THEN Append(loaded_modules, c.m) ELSE loaded_modules
    /\ pc' = "idle"
    /\ cur' = NoCall
    /\ result' = res

\* self.__req.send_json(msg), then __try_recv_json() with the call at c.
SendNext(ms, msg, c) ==
    IF ReqCanSend(ms[c.m].req)
    THEN /\ mods' = [ms EXCEPT ![c.m].req = ReqSend(@, msg)]
         /\ pc' = "wait"
         /\ cur' = c
         /\ result' = NoResult
         /\ UNCHANGED loaded_modules
    ELSE Finish(ms, c, Raise(c, "ZMQError"))

(***************************************************************************)
(* The server's side of the wire: the replies it may send to a request.    *)
(***************************************************************************)
\* Names a module may declare: a function, a name the module object already
\* has, a name with a prime, an operator, an operator with a question mark.
DeclNames ==
    {<<"f">>, <<"e", "v", "a", "l">>, <<"x", "'">>, <<"+">>, <<"<", "?", ">">>}

DeclUniverse ==
    {Decl(n, i, t) : n \in DeclNames, i \in BOOLEAN, t \in {<<>>, <<"a">>}}

\* Top-level declarations have distinct names.
Catalogues ==
    {c \in UNION {[1..n -> DeclUniverse] : n \in 0..MaxDecls} :
        \A i, j \in DOMAIN c : i # j => c[i].name # c[j].name}

\* The browse replies of a world: two small modules (an empty one, and one
\* that declares the function f), or any catalogue.
CatsOf(kind) ==
    IF kind = "any" THEN Catalogues
    ELSE {<<>>, <<Decl(<<"f">>, FALSE, <<>>)>>}

\* The replies with tag t that carry a text.
TextReplies(t) == {[Rep(t) EXCEPT !.text = x] : x \in world.texts}

AllReplies(req) ==
    CASE req.tag \in {"loadModule", "loadPrelude"} ->
            {Rep("ok")} \cup TextReplies("interactiveError")
      [] req.tag = "browse" ->
            {[Rep("browse") EXCEPT !.list = c] : c \in CatsOf(world.cats)}
      [] req.tag \in {"evalExpr", "applyFun"} ->
            {[Rep("value") EXCEPT !.val = w] : w \in world.wires}
            \cup {[Rep("funValue") EXCEPT !.handle = h] : h \in world.handles}
            \cup TextReplies("interactiveError") \cup {Rep("other")}
      [] req.tag = "typeOf" ->
            {Rep("type"), Rep("other")} \cup TextReplies("interactiveError")
      [] req.tag \in {"check", "exhaust"} -> {Rep("report")}
      [] req.tag = "prove" ->
            {Rep("prove"), Rep("other")}
            \cup TextReplies("proverError") \cup TextReplies("interactiveError")
            \cup {[Rep("prove") EXCEPT !.null = FALSE, !.list = ws] :
                      ws \in world.cexs}
      [] req.tag = "sat" ->
            {Rep("other")}
            \cup TextReplies("proverError") \cup TextReplies("interactiveError")
            \cup {[Rep("sat") EXCEPT !.list = as] : as \in world.asgs}
      [] OTHER -> {Rep("ok")}

Replies(req) == {r \in AllReplies(req) : r.tag \in world.tags}

(***************************************************************************)
(* _CryptolModule.__init__: the loop over the declarations of the browse   *)
(* reply.                                                                  *)
(***************************************************************************)
\* The declarations left once the polymorphic ones at the front are skipped.
RECURSIVE SkipPoly(_)
SkipPoly(ds) ==
    IF ds = <<>> THEN ds
    ELSE IF Len(Head(ds).tvars) # 0 THEN SkipPoly(Tail(ds))
    ELSE ds

\* Go on with the declarations ds: evaluate the first monomorphic one, or
\* return from the constructor.
StartDecls(ms, c, ds) ==
    LET rest == SkipPoly(ds)
    IN  IF rest = <<>> THEN Finish(ms, c, Ret(c, ModuleRef(c.m)))
        ELSE LET expr == <<"(">> \o Head(rest).name \o <<")">>
                 loc == TagExprLocal([isstr |-> TRUE, expr |-> expr,
                                      args |-> PyTuple(<<>>)])
             IN  IF loc # "ok" THEN Finish(ms, c, RaiseMsg(c, "TypeError", loc))
                 ELSE SendNext(ms, Msg("evalExpr"),
                               [c EXCEPT !.phase = "decl", !.todo = rest])

\* hasattr looking at the members bound so far only.
HasAttrBoundOnly(md, name) == name \in DOMAIN md.members

\* hasattr(self, name)
HasAttr(md, name) == name \in ClassAttrs \/ name \in DOMAIN md.members

\* The binding with the infix test made before the declaration is recorded.
BindDeclInfixFirst(md, decl, val, sval) ==
    LET withDecl == [md EXCEPT !.decls =
                        [n \in DOMAIN md.decls \cup {decl.name} |->
                            IF n = decl.name THEN sval ELSE md.decls[n]]]
    IN  IF decl.infix THEN md
        ELSE IF ~IsIdentifier(decl.name) THEN withDecl
        ELSE IF HasAttr(md, decl.name) THEN withDecl
        ELSE [withDecl EXCEPT !.members =
                 [n \in DOMAIN md.members \cup {decl.name} |->
                     IF n = decl.name THEN val ELSE md.members[n]]]

\* The declaration decl evaluated to val (and to sval, its static form).
BindDecl(md, decl, val, sval) ==
    LET withDecl == [md EXCEPT !.decls =
                        [n \in DOMAIN md.decls \cup {decl.name} |->
                            IF n = decl.name THEN sval ELSE md.decls[n]]]
    IN  IF decl.infix THEN withDecl
        ELSE IF ~IsIdentifier(decl.name) THEN withDecl
        ELSE IF HasAttr(md, decl.name) THEN withDecl
        ELSE [withDecl EXCEPT !.members =
                 [n \in DOMAIN md.members \cup {decl.name} |->
                     IF n = decl.name THEN val ELSE md.members[n]]]

\* The reply to the evaluation of the declaration at the head of c.todo.
DeclReply(ms, c, rep) ==
    LET decl == Head(c.todo)
        val == IF rep.tag = "value" THEN from_value(rep.val)
               ELSE Handle(rep.handle, c.m, "method")
        sval == IF rep.tag = "value" THEN val
                ELSE Handle(rep.handle, c.m, "static")
    IN  IF rep.tag = "value" /\ IsRaise(val) THEN Finish(ms, c, Raise(c, val.exc))
        ELSE IF rep.tag \in {"value", "funValue"}
        THEN StartDecls([ms EXCEPT ![c.m] = BindDecl(@, decl, val, sval)],
                        c, Tail(c.todo))
        ELSE IF rep.tag = "interactiveError"
        THEN Finish(ms, c, RaiseMsg(c, "CryptolError", rep.text))
        ELSE Finish(ms, c, Raise(c, "PycryptolInternalError"))

(***************************************************************************)
(* What each operation makes of the reply to its last request.             *)
(***************************************************************************)
\* eval with every reply that is no value taken for a language-level failure.
EvalResultAllErrors(c, rep) ==
    IF rep.tag = "value" THEN
        LET v == from_value(rep.val)
        IN  IF IsRaise(v) THEN Raise(c, v.exc) ELSE Ret(c, v)
    ELSE RaiseMsg(c, "CryptolError", rep.text)

\* _CryptolModule.eval
EvalResult(c, rep) ==
    IF rep.tag = "value" THEN
        LET v == from_value(rep.val)
        IN  IF IsRaise(v) THEN Raise(c, v.exc) ELSE Ret(c, v)
    ELSE IF rep.tag = "funValue" THEN Ret(c, Handle(rep.handle, c.m, "static"))
    ELSE IF rep.tag = "interactiveError"
    THEN RaiseMsg(c, "CryptolError", rep.text)
    ELSE Raise(c, "PycryptolInternalError")

\* self.__from_funvalue(val['handle'], static) inside clos, static being the
\* flag the applied function was made with: static_clos, or clos itself.
FromFunvalue(h, m, kind) ==
    Handle(h, m, IF kind = "static" THEN "static" ELSE "unbound")

\* clos of _CryptolModule.__from_funvalue; c.opt is the kind of the function
\* that was applied.
ApplyResult(c, rep) ==
    IF rep.tag = "value" THEN
        LET v == from_value(rep.val)
        IN  IF IsRaise(v) THEN Raise(c, v.exc) ELSE Ret(c, v)
    ELSE IF rep.tag = "funValue" THEN Ret(c, FromFunvalue(rep.handle, c.m, c.opt))
    ELSE Raise(c, "PycryptolInternalError")

\* _CryptolModule.typeof
TypeofResult(c, rep) ==
    IF rep.tag = "type" THEN Ret(c, PyStr)
    ELSE IF rep.tag = "interactiveError"
    THEN RaiseMsg(c, "CryptolError", rep.text)
    ELSE Raise(c, "PycryptolInternalError")

\* tuple([self.__from_value(arg) for arg in ws])
DecodeArgs(ws) ==
    LET vs == [i \in DOMAIN ws |-> from_value(ws[i])]
    IN  IF AnyRaise(vs) THEN FirstRaise(vs) ELSE PyTuple(vs)

\* A constructed object is returned, an exception is raised.
RetOrRaise(c, o) == IF IsRaise(o) THEN Raise(c, o.exc) ELSE Ret(c, o)

\* prove testing the counterexample for truth, not for None.
ProveResultTruthTest(c, rep) ==
    IF rep.tag = "prove" THEN
        IF ~rep.null /\ rep.list # <<>> THEN
            LET args == DecodeArgs(rep.list)
            IN  IF IsRaise(args) THEN Raise(c, args.exc)
                ELSE RetOrRaise(c, ProofResult(FALSE, args))
        ELSE RetOrRaise(c, ProofResult(TRUE, PyNone))
    ELSE IF rep.tag = "proverError" THEN RaiseMsg(c, "ProverError", rep.text)
    ELSE IF rep.tag = "interactiveError"
    THEN RaiseMsg(c, "CryptolError", rep.text)
    ELSE Raise(c, "PycryptolInternalError")

\* _CryptolModule.prove
ProveResult(c, rep) ==
    IF rep.tag = "prove" THEN
        IF ~rep.null THEN
            LET args == DecodeArgs(rep.list)
            IN  IF IsRaise(args) THEN Raise(c, args.exc)
                ELSE RetOrRaise(c, ProofResult(FALSE, args))
        ELSE RetOrRaise(c, ProofResult(TRUE, PyNone))
    ELSE IF rep.tag = "proverError" THEN RaiseMsg(c, "ProverError", rep.text)
    ELSE IF rep.tag = "interactiveError"
    THEN RaiseMsg(c, "CryptolError", rep.text)
    ELSE Raise(c, "PycryptolInternalError")

\* sat handing out the first assignment whenever one was asked for.
SatOutcomeTakesFirst(c, rep) ==
    IF rep.tag = "sat" THEN
        LET argss == [i \in DOMAIN rep.list |-> DecodeArgs(rep.list[i].args)]
        IN  IF AnyRaise(argss) THEN Raise(c, FirstRaise(argss).exc)
            ELSE IF c.opt = PyInt(1) THEN
                IF Len(argss) = 0 THEN RetOrRaise(c, SatResult(FALSE, PyNone))
                ELSE RetOrRaise(c, SatResult(TRUE, argss[1]))
            ELSE IF Len(argss) = 0
                 THEN RetOrRaise(c, AllSatResult(FALSE, PyNone))
                 ELSE RetOrRaise(c, AllSatResult(TRUE, PyList(argss)))
    ELSE IF rep.tag = "proverError" THEN RaiseMsg(c, "ProverError", rep.text)
    ELSE IF rep.tag = "interactiveError"
    THEN RaiseMsg(c, "CryptolError", rep.text)
    ELSE Raise(c, "PycryptolInternalError")

\* _CryptolModule.sat; c.opt is sat_num: 1, another count, or None
SatOutcome(c, rep) ==
    IF rep.tag = "sat" THEN
        LET argss == [i \in DOMAIN rep.list |-> DecodeArgs(rep.list[i].args)]
        IN  IF AnyRaise(argss) THEN Raise(c, FirstRaise(argss).exc)
            ELSE IF c.opt = PyInt(1) THEN
                IF Len(argss) = 0 THEN RetOrRaise(c, SatResult(FALSE, PyNone))
                ELSE IF Len(argss) = 1 THEN RetOrRaise(c, SatResult(TRUE, argss[1]))
                ELSE Raise(c, "PycryptolInternalError")
            ELSE IF Len(argss) = 0
                 THEN RetOrRaise(c, AllSatResult(FALSE, PyNone))
                 ELSE RetOrRaise(c, AllSatResult(TRUE, PyList(argss)))
    ELSE IF rep.tag = "proverError" THEN RaiseMsg(c, "ProverError", rep.text)
    ELSE IF rep.tag = "interactiveError"
    THEN RaiseMsg(c, "CryptolError", rep.text)
    ELSE Raise(c, "PycryptolInternalError")

\* __tag_expr sending the request without a look at its arguments.
TagExprSendUnchecked(ms, c, tag, ph) ==
    SendNext(ms, Msg(tag), [c EXCEPT !.phase = ph])

\* self.__tag_expr(tag, expr, fmtargs) once the options are set: the local
\* checks, then the request.
TagExprSend(ms, c, tag, ph) ==
    IF c.loc # "ok" THEN Finish(ms, c, RaiseMsg(c, "TypeError", c.loc))
    ELSE SendNext(ms, Msg(tag), [c EXCEPT !.phase = ph])

\* browse() emptying the lookup table it is about to read anew.
RawReplyRebinds(ms, c, rep) ==
    Finish(IF c.op = "browse" THEN [ms EXCEPT ![c.m].decls = <<>>] ELSE ms,
           c, Ret(c, Raw(rep)))

\* check, exhaust, setopt and browse return the reply as it is.
RawReply(ms, c, rep) == Finish(ms, c, Ret(c, Raw(rep)))

\* The constructor going on to browse whatever the load request was answered.
LoadReplyUnchecked(ms, c, rep) ==
    SendNext(ms, Msg("browse"), [c EXCEPT !.phase = "browse"])

\* __load_prelude / __load_module once the reply is there, then the browse
\* request of the constructor.  The exception is made of the whole reply,
\* of which the text is kept.
LoadReply(ms, c, rep) ==
    IF rep.tag # "ok"
    THEN Finish(ms, c, RaiseMsg(c, ModuleLoadError, rep.text))
    ELSE SendNext(ms, Msg("browse"), [c EXCEPT !.phase = "browse"])

\* The reply rep to the request of call c was received; ms is mods with the
\* reply taken off the socket.
Dispatch(ms, c, rep) ==
    CASE c.phase = "load" -> LoadReply(ms, c, rep)
      [] c.phase = "browse" ->
            StartDecls([ms EXCEPT ![c.m].cat = rep.list], c, rep.list)
      [] c.phase = "decl" -> DeclReply(ms, c, rep)
      [] c.phase = "raw" -> RawReply(ms, c, rep)
      [] c.phase = "eval" -> Finish(ms, c, EvalResult(c, rep))
      [] c.phase = "apply" -> Finish(ms, c, ApplyResult(c, rep))
      [] c.phase = "typeof" -> Finish(ms, c, TypeofResult(c, rep))
      [] c.phase = "prove_opt" -> TagExprSend(ms, c, "prove", "prove")
      [] c.phase = "prove" -> Finish(ms, c, ProveResult(c, rep))
      [] c.phase = "sat_opt1" ->
            SendNext(ms, MsgOpt("prover", c.prover), [c EXCEPT !.phase = "sat_opt2"])
      [] c.phase = "sat_opt2" -> TagExprSend(ms, c, "sat", "sat")
      [] c.phase = "sat" -> Finish(ms, c, SatOutcome(c, rep))

(***************************************************************************)
(* Cryptol.load_module / Cryptol.prelude.                                  *)
(***************************************************************************)
Paths == {"-", "A.cry"}     \* "-": the prelude (filepath is None)

\* The call and __new_client's send of `connect` on the control socket.
LoadStart ==
    /\ pc = "idle"
    /\ nloads < world.loads
    /\ \E path \in Paths :
        LET c == [NoCall EXCEPT !.op = "load", !.m = nloads + 1,
                                !.phase = "connect", !.opt = path]
        IN  IF ReqCanSend(mainReq)
            THEN /\ mainReq' = ReqSend(mainReq, MsgPort("connect", nports + 1))
                 /\ nports' = nports + 1
                 /\ pc' = "connect"
                 /\ cur' = c
                 /\ result' = NoResult
            ELSE /\ pc' = "idle"
                 /\ cur' = NoCall
                 /\ result' = Raise(c, "ZMQError")
                 /\ UNCHANGED <<mainReq, nports>>
    /\ nloads' = nloads + 1
    /\ hlog' = <<>>
    /\ UNCHANGED <<server, ctxClosed, loaded_modules, mods, intrCount,
                   exitCalls, world, codecVars, resVars>>

\* The reply to `connect` arrives: the worker socket is opened and the module
\* object constructed, up to its first blocking receive.
ConnectRecv ==
    /\ pc = "connect"
    /\ mainReq.pend # <<>>
    /\ LET port == Head(mainReq.pend).port
           ms == [mods EXCEPT ![cur.m] = NewModule(port)]
       IN  /\ mainReq' = ReqRecv(mainReq)
           /\ SendNext(ms, MsgLoad(cur.opt), [cur EXCEPT !.phase = "load"])
    /\ UNCHANGED <<server, ctxClosed, nloads, nports, hlog, intrCount,
                   exitCalls, world, codecVars, resVars>>

\* The wait for the reply to `connect` is interrupted: nothing guards it.
ConnectFail ==
    /\ pc = "connect"
    /\ intrCount < MaxInterrupts
    /\ intrCount' = intrCount + 1
    /\ Finish(mods, cur, RaiseIntr(cur, intrCount + 1))
    /\ UNCHANGED <<server, mainReq, ctxClosed, nloads, nports, hlog,
                   exitCalls, world, codecVars, resVars>>

(***************************************************************************)
(* _CryptolModule.__try_recv_json.                                         *)
(***************************************************************************)
Ev(op, sock, msg) == [op |-> op, sock |-> sock, msg |-> msg]

\* self.__req.recv_json() returns the reply.
RecvReply ==
    /\ pc = "wait"
    /\ mods[cur.m].req.pend # <<>>
    /\ \E rep \in Replies(Head(mods[cur.m].req.pend)) :
           Dispatch([mods EXCEPT ![cur.m].req = ReqRecv(@)],
                    [cur EXCEPT !.rep = IF world.trace THEN rep ELSE NoRep], rep)
    /\ UNCHANGED <<server, mainReq, ctxClosed, nloads, nports, hlog,
                   intrCount, exitCalls, world, codecVars, resVars>>

\* self.__req.recv_json() raises: the handler sends `interrupt` on the
\* control socket.
RecvFail ==
    /\ pc = "wait"
    /\ intrCount < MaxInterrupts
    /\ intrCount' = intrCount + 1
    /\ LET c == [cur EXCEPT !.fail = intrCount + 1]
           msg == MsgPort("interrupt", mods[cur.m].port)
       IN  IF ReqCanSend(mainReq)
           THEN /\ mainReq' = ReqSend(mainReq, msg)
                /\ hlog' = <<Ev("send", 0, msg)>>
                /\ pc' = "ack"
                /\ cur' = c
                /\ UNCHANGED <<mods, loaded_modules, result>>
           ELSE /\ Finish(mods, c, Raise(c, "ZMQError"))
                /\ UNCHANGED <<mainReq, hlog>>
    /\ UNCHANGED <<server, ctxClosed, nloads, nports, exitCalls, world,
                   codecVars, resVars>>

\* self.__control_req.recv_json() returns the acknowledgement.
AckRecv ==
    /\ pc = "ack"
    /\ mainReq.pend # <<>>
    /\ mainReq' = ReqRecv(mainReq)
    /\ hlog' = Append(hlog, Ev("recv", 0, Head(mainReq.pend)))
    /\ pc' = "drain"
    /\ UNCHANGED <<server, ctxClosed, loaded_modules, mods, nloads, nports,
                   cur, result, intrCount, exitCalls, world, codecVars, resVars>>

\* self.__control_req.recv_json() is interrupted in its turn.
AckFail ==
    /\ pc = "ack"
    /\ intrCount < MaxInterrupts
    /\ intrCount' = intrCount + 1
    /\ Finish(mods, cur, RaiseIntr(cur, intrCount + 1))
    /\ UNCHANGED <<server, mainReq, ctxClosed, nloads, nports, hlog,
                   exitCalls, world, codecVars, resVars>>

\* The second self.__req.recv_json() drains the reply; `raise` re-raises the
\* failure of the first.
DrainRecv ==
    /\ pc = "drain"
    /\ mods[cur.m].req.pend # <<>>
    /\ hlog' = Append(hlog, Ev("recv", cur.m, Head(mods[cur.m].req.pend)))
    /\ Finish([mods EXCEPT ![cur.m].req = ReqRecv(@)], cur,
              RaiseIntr(cur, cur.fail))
    /\ UNCHANGED <<server, mainReq, ctxClosed, nloads, nports, intrCount,
                   exitCalls, world, codecVars, resVars>>

\* The second self.__req.recv_json() is interrupted in its turn.
DrainFail ==
    /\ pc = "drain"
    /\ intrCount < MaxInterrupts
    /\ intrCount' = intrCount + 1
    /\ Finish(mods, cur, RaiseIntr(cur, intrCount + 1))
    /\ UNCHANGED <<server, mainReq, ctxClosed, nloads, nports, hlog,
                   exitCalls, world, codecVars, resVars>>

(***************************************************************************)
(* The operations of a module object.  The caller holds a reference to the *)
(* module (st = "live") and is not inside another call.                    *)
(***************************************************************************)
Exprs == {<<"1">>, <<"f", " ", "?">>}

ExprArgs ==
    {PyTuple(<<>>), PyTuple(<<PyBV(MaxBvWidth, 1)>>), PyBV(MaxBvWidth, 1),
     PyTuple(<<PyStr>>)}

ExprInputs ==
    {[isstr |-> b, expr |-> e, args |-> a] :
        b \in BOOLEAN, e \in Exprs, a \in ExprArgs}

ProverNames == {"cvc4", "z3"}      \* Provers.CVC4.value, Provers.Z3.value
SatNums == {PyInt(1), PyInt(2), PyNone}     \* sat_num

\* str(n) for the counts of SatNums.
IntStr(n) == <<"0", "1", "2", "3", "4", "5", "6", "7", "8", "9">>[n + 1]

\* The value sent for satNum with str() applied to None as well.
SatNumOptionStr(n) == IF n = PyNone THEN "None" ELSE IntStr(n.v)

\* The value sent for satNum: 'all' for None, else str(sat_num).
SatNumOption(n) == IF n = PyNone THEN "all" ELSE IntStr(n.v)

\* The inputs of a world: every one, or a well-formed call and one that
\* lacks an argument.
InputsOf(kind) ==
    IF kind = "all" THEN ExprInputs
    ELSE {[isstr |-> TRUE, expr |-> <<"1">>, args |-> PyTuple(<<>>)],
          [isstr |-> TRUE, expr |-> <<"f", " ", "?">>, args |-> PyTuple(<<>>)]}

CallOn(m, op) == [NoCall EXCEPT !.op = op, !.m = m]

\* A call with the expression and arguments inp: what the local part of
\* __tag_expr will make of them is known from the start.
CallWith(m, op, inp) ==
    [CallOn(m, op) EXCEPT !.loc = TagExprLocal(inp),
                          !.inp = IF world.trace THEN inp ELSE NoInput]

CanCall(m) == pc = "idle" /\ mods[m].st = "live"

CallFrame ==
    /\ hlog' = <<>>
    /\ UNCHANGED <<server, mainReq, ctxClosed, nloads, nports, intrCount,
                   exitCalls, world, codecVars, resVars>>

Eval ==
    \E m \in ModuleIds, inp \in InputsOf(world.inputs) :
        /\ CanCall(m)
        /\ TagExprSend(mods, CallWith(m, "eval", inp),
                       "evalExpr", "eval")
        /\ CallFrame

Typeof ==
    \E m \in ModuleIds, inp \in InputsOf(world.inputs) :
        /\ CanCall(m)
        /\ TagExprSend(mods, CallWith(m, "typeof", inp),
                       "typeOf", "typeof")
        /\ CallFrame

Check ==
    \E m \in ModuleIds, inp \in InputsOf(world.inputs) :
        /\ CanCall(m)
        /\ TagExprSend(mods, CallWith(m, "check", inp),
                       "check", "raw")
        /\ CallFrame

Exhaust ==
    \E m \in ModuleIds, inp \in InputsOf(world.inputs) :
        /\ CanCall(m)
        /\ TagExprSend(mods, CallWith(m, "exhaust", inp),
                       "exhaust", "raw")
        /\ CallFrame

\* prove: self.setopt('prover', prover.value) comes first.
Prove ==
    \E m \in ModuleIds, inp \in InputsOf(world.inputs), pv \in ProverNames :
        /\ CanCall(m)
        /\ SendNext(mods, MsgOpt("prover", pv),
                    [CallWith(m, "prove", inp) EXCEPT !.phase = "prove_opt",
                                                      !.prover = pv])
        /\ CallFrame

\* sat: self.setopt('satNum', ...) comes first, then the prover.
Sat ==
    \E m \in ModuleIds, inp \in InputsOf(world.inputs), pv \in ProverNames,
       n \in SatNums :
        /\ CanCall(m)
        /\ SendNext(mods, MsgOpt("satNum", SatNumOption(n)),
                    [CallWith(m, "sat", inp) EXCEPT !.phase = "sat_opt1",
                                                    !.opt = n, !.prover = pv])
        /\ CallFrame

SetOpt ==
    \E m \in ModuleIds, key \in {"base"}, value \in {"10"} :
        /\ CanCall(m)
        /\ SendNext(mods, MsgOpt(key, value),
                    [CallOn(m, "setopt") EXCEPT !.phase = "raw"])
        /\ CallFrame

Browse ==
    \E m \in ModuleIds :
        /\ CanCall(m)
        /\ SendNext(mods, Msg("browse"), [CallOn(m, "browse") EXCEPT !.phase = "raw"])
        /\ CallFrame

\* The functions of module m the caller can hold: a declaration looked up
\* with decl(), a member of the module object, or what the last call returned.
HeldHandles(m) ==
    {mods[m].decls[n] : n \in {x \in DOMAIN mods[m].decls :
                                  mods[m].decls[x].k = "handle"}}
    \cup {mods[m].members[n] : n \in {x \in DOMAIN mods[m].members :
                                         mods[m].members[x].k = "handle"}}
    \cup (IF result.kind = "ret" /\ "kind" \in DOMAIN result.val
             /\ result.val.m = m
          THEN {result.val} ELSE {})

ApplyArgs == {PyBV(MaxBvWidth, 1), PyTuple(<<PyBool(TRUE)>>), PyStr}

\* fn(arg).  clos called with the argument alone lacks a parameter; else the
\* argument is encoded while the request is built.
Apply ==
    \E m \in ModuleIds, arg \in ApplyArgs :
        /\ CanCall(m)
        /\ \E fn \in HeldHandles(m) :
            LET c == [CallOn(m, "apply") EXCEPT
                         !.phase = "apply", !.opt = fn.kind,
                         !.inp = IF world.trace
                                 THEN [NoInput EXCEPT !.args = arg]
                                 ELSE NoInput]
                w == to_value(arg)
            IN  IF fn.kind = "unbound" THEN Finish(mods, c, Raise(c, "TypeError"))
                ELSE IF IsRaise(w) THEN Finish(mods, c, Raise(c, w.exc))
                ELSE SendNext(mods, Msg("applyFun"), c)
        /\ CallFrame

\* The lookup made among the attributes set on the module object.
DeclOutcomeOfMembers(c, md, name) ==
    IF name \in DOMAIN md.members THEN Ret(c, md.members[name])
    ELSE Raise(c, NotInScope)

\* self.__decls[name], or the KeyError turned into CryptolError.
DeclOutcome(c, md, name) ==
    IF name \in DOMAIN md.decls THEN Ret(c, md.decls[name])
    ELSE Raise(c, NotInScope)

\* _CryptolModule.decl
DeclLookup ==
    \E m \in ModuleIds, name \in DeclNames :
        /\ CanCall(m)
        /\ LET c == [CallOn(m, "decl") EXCEPT !.opt = name]
           IN  Finish(mods, c, DeclOutcome(c, mods[m], name))
        /\ CallFrame

(***************************************************************************)
(* _CryptolModule.exit, __del__, and Cryptol.exit.                         *)
(***************************************************************************)
\* exit() on the module object md.  got: the non-blocking receive found a
\* reply (else zmq.error.Again, which is swallowed).  err: the send raised
\* something else than Again, which propagates before the socket is closed.
ModExit(md, got) ==
    IF md.req.closed THEN [mod |-> md, err |-> FALSE]
    ELSE IF ~ReqCanSend(md.req) THEN [mod |-> md, err |-> TRUE]
    ELSE LET sent == ReqSend(md.req, Msg("exit"))
             rcvd == IF got THEN ReqRecv(sent) ELSE sent
         IN  [mod |-> [md EXCEPT !.req = ReqClose(rcvd), !.exitN = @ + 1],
              err |-> FALSE]

ModuleExit ==
    \E m \in ModuleIds, got \in BOOLEAN :
        /\ CanCall(m)
        /\ LET r == ModExit(mods[m], got)
               c == CallOn(m, "exit")
           IN  Finish([mods EXCEPT ![m] = r.mod], c,
                      IF r.err THEN Raise(c, "ZMQError") ELSE Ret(c, PyNone))
        /\ CallFrame

\* The module object is collected: __del__ calls exit(), whose exception (if
\* any) is ignored; the socket object goes with it.
Collect ==
    \E m \in ModuleIds, got \in BOOLEAN :
        /\ pc = "idle"
        /\ mods[m].st \in {"live", "garbage"}
        /\ mods' = [mods EXCEPT ![m] =
                       [ModExit(@, got).mod EXCEPT !.st = "gone",
                                                   !.req = ReqClose(@)]]
        /\ UNCHANGED <<sessVars, callVars, nloads, nports, intrCount, world,
                       codecVars, resVars>>

\* The loop leaving every module as it is.
ExitModsSkipsAll(ms, refs, got) == [mods |-> ms, err |-> FALSE]

\* The loop of Cryptol.exit over the weak references.
RECURSIVE ExitMods(_, _, _)
ExitMods(ms, refs, got) ==
    IF refs = <<>> THEN [mods |-> ms, err |-> FALSE]
    ELSE LET m == Head(refs)
         IN  IF ms[m].st = "gone" THEN ExitMods(ms, Tail(refs), got)
             ELSE LET r == ModExit(ms[m], got)
                      ms2 == [ms EXCEPT ![m] = r.mod]
                  IN  IF r.err THEN [mods |-> ms2, err |-> TRUE]
                      ELSE ExitMods(ms2, Tail(refs), got)

\* subprocess.Popen.poll() is not None
PollExited(p) == p \in {"exited", "terminated"}

\* subprocess.Popen.terminate()
Terminate(p) == IF p = "running" THEN "terminated" ELSE p

\* self.__ctx.destroy(): every socket of the context is closed.
CtxDestroy(ms) ==
    [m \in ModuleIds |->
        IF ms[m].st = "none" THEN ms[m] ELSE [ms[m] EXCEPT !.req = ReqClose(@)]]

\* if self.__server and self.__server.poll() is not None: terminate
ExitServer(p) == IF p # "none" /\ PollExited(p) THEN Terminate(p) ELSE p

\* Cryptol.exit
SessionExit ==
    /\ pc = "idle"
    /\ exitCalls < MaxExits
    /\ exitCalls' = exitCalls + 1
    /\ \E got \in BOOLEAN :
        LET c == CallOn(0, "session_exit")
            r == ExitMods(mods, loaded_modules, got)
            owned == server # "none"
        IN  IF r.err
            THEN /\ mods' = r.mods
                 /\ result' = Raise(c, "ZMQError")
                 /\ UNCHANGED <<mainReq, ctxClosed, server>>
            ELSE IF ~mainReq.closed /\ owned /\ ~ReqCanSend(mainReq)
            THEN /\ mods' = r.mods
                 /\ result' = Raise(c, "ZMQError")
                 /\ UNCHANGED <<mainReq, ctxClosed, server>>
            ELSE /\ mods' = IF ctxClosed THEN r.mods ELSE CtxDestroy(r.mods)
                 /\ mainReq' =
                        IF ~mainReq.closed /\ owned
                        THEN ReqClose(ReqSend(mainReq, Msg("exit")))
                        ELSE IF ~ctxClosed THEN ReqClose(mainReq)
                        ELSE mainReq
                 /\ ctxClosed' = TRUE
                 /\ server' = ExitServer(server)
                 /\ result' = Ret(c, PyNone)
    /\ hlog' = <<>>
    /\ UNCHANGED <<loaded_modules, nloads, nports, pc, cur, intrCount, world,
                   codecVars, resVars>>

\* The server process ends by itself.
ServerExits ==
    /\ server = "running"
    /\ server' = "exited"
    /\ UNCHANGED <<mainReq, ctxClosed, loaded_modules, exitCalls, mods, nloads,
                   nports, callVars, intrCount, world, codecVars, resVars>>

(***************************************************************************)
(* The worlds the specifications run in: what the server may answer.       *)
(***************************************************************************)
AllTags ==
    {"ok", "browse", "value", "funValue", "type", "report", "prove", "sat",
     "interactiveError", "proverError", "other"}

SessionWorld ==
    [cats |-> "small",
     wires |-> {WBit(TRUE)},
     cexs |-> {<<WBit(TRUE)>>},
     asgs |-> {<<>>, <<[args |-> <<WBit(TRUE)>>]>>},
     tags |-> {"ok", "browse", "value", "funValue", "type", "report",
               "prove", "sat", "interactiveError"},
     handles |-> {"h"},
     texts |-> {"pp"},
     inputs |-> "pair",
     trace |-> FALSE,
     loads |-> MaxModules]

InitCodecIdle ==
    cIn = PyNone /\ cWire = WNone /\ cOut = Unset /\ cPc = "in" /\ cEnc = FALSE

\* The session as Cryptol.__init__ leaves it, attached to a running server
\* (server = "none") or owning the process it started.
InitSession(w, servers) ==
    /\ server \in servers
    /\ mainReq = NewSocket
    /\ ctxClosed = FALSE
    /\ loaded_modules = <<>>
    /\ mods = [m \in ModuleIds |-> NoModule]
    /\ nloads = 0
    /\ nports = 0
    /\ pc = "idle"
    /\ cur = NoCall
    /\ result = NoResult
    /\ hlog = <<>>
    /\ intrCount = 0
    /\ exitCalls = 0
    /\ world = w

Init == InitCodecIdle /\ InitRes /\ InitSession(SessionWorld, {"none", "running"})

Next ==
    \/ LoadStart \/ ConnectRecv \/ ConnectFail
    \/ RecvReply \/ RecvFail \/ AckRecv \/ AckFail \/ DrainRecv \/ DrainFail
    \/ Eval \/ Typeof \/ Check \/ Exhaust \/ Prove \/ Sat \/ SetOpt \/ Browse
    \/ Apply \/ DeclLookup
    \/ ModuleExit \/ Collect \/ SessionExit \/ ServerExits

Spec == Init /\ [][Next]_vars

InitCodec == InitCodecVars /\ InitRes /\ InitSession(SessionWorld, {"none"})

SpecCodec == InitCodec /\ [][NextCodec]_vars

InitResult == InitCodecIdle /\ InitRes /\ InitSession(SessionWorld, {"none"})

NextResult == NewProofResult \/ NewSatResult \/ NewAllSatResult

SpecResult == InitResult /\ [][NextResult]_vars

(***************************************************************************)
(* SpecBind: one module is loaded from a server that may announce any      *)
(* catalogue of at most MaxDecls declarations; no interruption occurs.     *)
(***************************************************************************)
BindWorld ==
    [cats |-> "any",
     wires |-> {WBit(TRUE)},
     cexs |-> {},
     asgs |-> {},
     tags |-> {"ok", "browse", "value", "funValue", "interactiveError"},
     handles |-> {"h"},
     texts |-> {"pp"},
     inputs |-> "pair",
     trace |-> TRUE,
     loads |-> 1]

InitBind == InitCodecIdle /\ InitRes /\ InitSession(BindWorld, {"none"})

NextBind == LoadStart \/ ConnectRecv \/ RecvReply \/ DeclLookup

SpecBind == InitBind /\ [][NextBind]_vars

(***************************************************************************)
(* SpecExit: modules are loaded, used, interrupted, exited and collected,  *)
(* and every result remembers the call it ends.                            *)
(***************************************************************************)
ExitWorld ==
    [cats |-> "small",
     wires |-> {WBit(TRUE)},
     cexs |-> {},
     asgs |-> {},
     tags |-> {"ok", "browse", "value", "funValue"},
     handles |-> {"h"},
     texts |-> {"pp"},
     inputs |-> "pair",
     trace |-> TRUE,
     loads |-> MaxModules]

InitExit == InitCodecIdle /\ InitRes /\ InitSession(ExitWorld, {"none"})

NextExit ==
    \/ LoadStart \/ ConnectRecv \/ ConnectFail
    \/ RecvReply \/ RecvFail \/ AckRecv \/ AckFail \/ DrainRecv \/ DrainFail
    \/ Eval \/ ModuleExit \/ Collect \/ SessionExit

SpecExit == InitExit /\ [][NextExit]_vars

(***************************************************************************)
(* SpecCalls: two modules are loaded and their operations called; the      *)
(* server may answer with any tag, with values the codec cannot decode,    *)
(* and with any number of assignments.  No interruption occurs, and every  *)
(* result remembers the call it ends and the last reply it received.       *)
(***************************************************************************)
CallsWorld ==
    [cats |-> "small",
     wires |-> {WBit(TRUE), WWord(MaxWordWidth, MaxWordValue), WWord(0, 1),
                WTuple(<<WFun("h")>>), [unknown |-> TRUE]},
     cexs |-> {<<>>, <<WBit(TRUE)>>, <<WWord(MaxWordWidth, MaxWordValue), WBit(FALSE)>>,
               <<[unknown |-> TRUE]>>},
     asgs |-> {<<>>,
               <<[args |-> <<WBit(TRUE)>>]>>,
               <<[args |-> <<>>]>>,
               <<[args |-> <<WBit(TRUE)>>], [args |-> <<WBit(FALSE)>>]>>,
               <<[args |-> <<WBit(FALSE)>>], [args |-> <<WBit(TRUE)>>]>>,
               <<[args |-> <<[unknown |-> TRUE]>>]>>},
     tags |-> AllTags,
     handles |-> {"h", "g"},
     texts |-> {"pp", "qq"},
     inputs |-> "pair",
     trace |-> TRUE,
     loads |-> 2]

InitCalls == InitCodecIdle /\ InitRes /\ InitSession(CallsWorld, {"none"})

NextCalls ==
    \/ LoadStart \/ ConnectRecv \/ RecvReply
    \/ Eval \/ Prove \/ Sat \/ Apply \/ DeclLookup

SpecCalls == InitCalls /\ [][NextCalls]_vars

(***************************************************************************)
(* SpecLocal: one module is loaded from a server that answers every        *)
(* request as asked; every operation of the module object is called, with  *)
(* every expression and argument tuple of ExprInputs, well formed or not.  *)
(* No interruption occurs, and every result remembers the call it ends.    *)
(***************************************************************************)
LocalWorld ==
    [cats |-> "small",
     wires |-> {WBit(TRUE)},
     cexs |-> {<<WBit(TRUE)>>},
     asgs |-> {<<>>},
     tags |-> {"ok", "browse", "value", "funValue", "type", "report",
               "prove", "sat"},
     handles |-> {"h"},
     texts |-> {"pp"},
     inputs |-> "all",
     trace |-> TRUE,
     loads |-> 1]

InitLocal == InitCodecIdle /\ InitRes /\ InitSession(LocalWorld, {"none"})

NextLocal ==
    \/ LoadStart \/ ConnectRecv \/ RecvReply
    \/ Eval \/ Typeof \/ Check \/ Exhaust \/ Prove \/ Sat \/ SetOpt \/ Browse
    \/ Apply \/ DeclLookup \/ ModuleExit

SpecLocal == InitLocal /\ [][NextLocal]_vars

(***************************************************************************)
(* Properties.                                                             *)
(***************************************************************************)
\* The call that just ended had a guarded receive interrupted.
Interrupted == pc = "idle" /\ result.fail # 0

\* C1: whenever a blocking receive on a module socket is interrupted, the
\* connection sends `interrupt` with its own worker port on the control
\* socket, receives the acknowledgement there, receives exactly once more on
\* the module socket, with nothing in between, and re-raises the original
\* failure.
C1_InterruptSequence ==
    Interrupted =>
        /\ Len(hlog) = 3
        /\ hlog[1] = Ev("send", 0, MsgPort("interrupt", mods[result.m].port))
        /\ hlog[2] = Ev("recv", 0, MsgPort("interrupt", mods[result.m].port))
        /\ hlog[3].op = "recv" /\ hlog[3].sock = result.m
        /\ result.kind = "raise"
        /\ result.val = Exc("KeyboardInterrupt", result.fail)

\* C2: an interrupted call raises, leaves no request outstanding on the
\* module socket, and a later call on the module is not refused by the
\* socket: it sends its request and waits for the reply to that request.
C2_SocketConsistent ==
    /\ Interrupted =>
           /\ result.kind = "raise"
           /\ mods[result.m].req.pend = <<>>
    /\ (pc = "idle" /\ result.kind = "raise" /\ result.m \in ModuleIds
        /\ result.val.exc = "ZMQError") => mods[result.m].req.closed
    /\ (pc = "wait" /\ cur.fail = 0) => Len(mods[cur.m].req.pend) = 1

\* C3: on every module socket at most one request awaits its reply, at most
\* one exit notice is sent, and nothing is sent after it.
C3_Alternation ==
    \A m \in ModuleIds :
        /\ Len(mods[m].req.pend) <= 1
        /\ mods[m].exitN <= 1
        /\ mods[m].exitN = 1 => mods[m].req.closed

\* A call on a live module returned after an earlier call was interrupted,
\* and another module has sent its exit notice.
C3_Witness ==
    /\ pc = "idle" /\ result.kind = "ret" /\ result.fail = 0
    /\ intrCount > 0
    /\ result.m \in ModuleIds
    /\ mods[result.m].st = "live" /\ ~mods[result.m].req.closed
    /\ \E m \in ModuleIds : mods[m].exitN = 1

\* C4: decoding the encoding of a representable local value gives the value
\* back.
C4_RoundTrip ==
    (cPc = "out" /\ cEnc /\ Representable(cIn)) => cOut = cIn

\* A nested representable value has made the round trip.
C4_Witness ==
    /\ cPc = "out" /\ cEnc /\ Representable(cIn)
    /\ cIn.k = "list" /\ Len(cIn.elts) = 2
    /\ \E i \in DOMAIN cIn.elts : cIn.elts[i].k = "dict"
    /\ cOut = cIn

\* C5: a word of width 0 decodes to None whatever its magnitude, a word of
\* width >= 1 never does.
C5_ZeroWidthWord ==
    (cPc = "out" /\ "word" \in DOMAIN cWire) =>
        (cOut = PyNone <=> cWire.word.bitvector.width = 0)

\* A word of width 0 and non-zero magnitude has been decoded.
C5_Witness ==
    /\ cPc = "out" /\ "word" \in DOMAIN cWire
    /\ cWire.word.bitvector.width = 0 /\ cWire.word.bitvector.value > 0
    /\ cOut = PyNone

\* C6: a word of width w >= 1 and magnitude n decodes to the bit-vector of
\* width w and magnitude n mod 2^w, as does every word of that width whose
\* magnitude is congruent to n.
C6_ModularDecode ==
    (cPc = "out" /\ "word" \in DOMAIN cWire
     /\ cWire.word.bitvector.width >= 1) =>
        LET w == cWire.word.bitvector.width
            n == cWire.word.bitvector.value
        IN  /\ cOut.k = "bv"
            /\ cOut.size = w
            /\ cOut.intVal = n % Pow2(w)
            /\ \A n2 \in 0..MaxWordValue :
                   n2 % Pow2(w) = n % Pow2(w) => from_value(WWord(w, n2)) = cOut

\* The word of width 4 and magnitude 19 has been decoded, to 3.
C6_Witness ==
    /\ cPc = "out" /\ cWire = WWord(4, 19)
    /\ cOut = PyBV(4, 3)

\* C7: every ProofResult the constructor accepts has a counterexample iff
\* it is not valid.
C7_ProofResultInvariant ==
    (~IsRaise(rObj) /\ rObj.cls = "ProofResult") =>
        (has_counterexample(rObj) <=> ~is_valid(rObj))

\* C8: every SatResult the constructor accepts has an assignment iff it is
\* satisfiable.
C8_SatResultInvariant ==
    (~IsRaise(rObj) /\ rObj.cls = "SatResult") =>
        (has_assignment(rObj) <=> is_sat(rObj))

\* The module the caller holds after a successful load.
Loaded(m) == mods[m].st = "live"

Monomorphic(d) == Len(d.tvars) = 0

\* C9 as stated: after a successful load every monomorphic, non-infix,
\* identifier-valid declaration of the browse reply is a member of the
\* module object, every monomorphic declaration is in decl(), and no
\* polymorphic declaration is in either.
C9_BindingAsStated ==
    \A m \in ModuleIds : Loaded(m) =>
        \A i \in DOMAIN mods[m].cat :
            LET d == mods[m].cat[i]
            IN  /\ (Monomorphic(d) /\ ~d.infix /\ IsIdentifier(d.name))
                       => d.name \in DOMAIN mods[m].members
                /\ Monomorphic(d) => d.name \in DOMAIN mods[m].decls
                /\ ~Monomorphic(d) =>
                       /\ d.name \notin DOMAIN mods[m].members
                       /\ d.name \notin DOMAIN mods[m].decls

\* C9: after a successful load every monomorphic, non-infix,
\* identifier-valid declaration whose name is not already an attribute of
\* the module object is a member of it, one whose name is already an
\* attribute is not bound, every monomorphic declaration is in decl(), and
\* no polymorphic declaration is in either.
C9_Binding ==
    \A m \in ModuleIds : Loaded(m) =>
        \A i \in DOMAIN mods[m].cat :
            LET d == mods[m].cat[i]
            IN  /\ (Monomorphic(d) /\ ~d.infix /\ IsIdentifier(d.name))
                       => (d.name \in DOMAIN mods[m].members
                              <=> d.name \notin ClassAttrs)
                /\ Monomorphic(d) => d.name \in DOMAIN mods[m].decls
                /\ ~Monomorphic(d) =>
                       /\ d.name \notin DOMAIN mods[m].members
                       /\ d.name \notin DOMAIN mods[m].decls

\* A module is loaded that declares the function f, bound as a member, and
\* the infix operator +, kept in decl() only.
C9_Witness ==
    \E m \in ModuleIds :
        /\ Loaded(m)
        /\ mods[m].cat = <<Decl(<<"f">>, FALSE, <<>>), Decl(<<"+">>, TRUE, <<>>)>>
        /\ DOMAIN mods[m].members = {<<"f">>}
        /\ DOMAIN mods[m].decls = {<<"f">>, <<"+">>}

\* C10: a second or later Cryptol.exit() raises nothing and changes neither
\* the session, nor its sockets, nor its modules.
C10_ExitIdempotent ==
    [][(exitCalls >= 1 /\ exitCalls' = exitCalls + 1) =>
          /\ result'.kind = "ret"
          /\ UNCHANGED <<server, mainReq, ctxClosed, loaded_modules, mods>>]_vars

\* The last call was Cryptol.exit() and it returned.
ExitReturned ==
    pc = "idle" /\ exitCalls >= 1 /\ result.kind = "ret" /\ result.m = 0

\* The module behind the i-th weak reference was collected, or it has sent
\* its exit notice and its socket is closed.
ExitedOrGone(i) ==
    LET md == mods[loaded_modules[i]]
    IN  md.st = "gone" \/ (md.req.closed /\ md.exitN = 1)

\* C11: when Cryptol.exit() has returned, every module of the session that
\* was not collected has been exited and its socket is closed, and the
\* control socket is closed; the control socket is never closed while a
\* module that was not collected still has an open socket.
C11_ExitClosesAll ==
    /\ ExitReturned =>
           /\ mainReq.closed
           /\ \A i \in DOMAIN loaded_modules : ExitedOrGone(i)
    /\ mainReq.closed =>
           \A i \in DOMAIN loaded_modules :
               mods[loaded_modules[i]].st = "gone"
               \/ mods[loaded_modules[i]].req.closed

\* Cryptol.exit() returned in a session with a collected module and one the
\* caller still holds.
C11_Witness ==
    /\ ExitReturned
    /\ Len(loaded_modules) = 2
    /\ mods[loaded_modules[1]].st = "gone"
    /\ mods[loaded_modules[2]].st = "live"
    /\ mods[loaded_modules[2]].exitN = 1
    /\ mainReq.closed

C13_ModuleExitIdempotent ==
    /\ [](\A m \in ModuleIds : mods[m].exitN <= 1)
    /\ []((pc = "idle" /\ result.op = "exit") =>
             /\ result.kind = "ret"
             /\ mods[result.m].req.closed
             /\ mods[result.m].exitN = 1)
    /\ [][\A m \in ModuleIds :
             (mods[m].st # "none" /\ mods[m].req.closed) =>
                 /\ mods'[m].req = mods[m].req
                 /\ mods'[m].exitN = mods[m].exitN]_vars

\* The call that just ended was op, and its request op was answered (the
\* requests of eval, apply, prove and sat go by the name of the call).
Answered(op) ==
    pc = "idle" /\ result.op = op /\ result.phase = op /\ result.rep # NoRep

Returned(v) == result.kind = "ret" /\ result.val = v
Raised(name) == result.kind = "raise" /\ result.val.exc = name

\* CryptolError and the classes derived from it.
CryptolErrors == {"CryptolError", "CryptolServerError", "ProverError"}

\* C14: eval maps the tag of the reply to its outcome: a `value` reply
\* returns the decoded value (or raises what decoding raises), a `funValue`
\* reply returns a function for the reply's handle on the same module, an
\* `interactiveError` reply raises CryptolError with the text under 'pp',
\* and any other tag raises PycryptolInternalError, which is no CryptolError.
C14_EvalMapping ==
    Answered("eval") =>
        LET r == result.rep
            v == from_value(r.val)
        IN  /\ r.tag = "value" =>
                    IF IsRaise(v) THEN Raised(v.exc) ELSE Returned(v)
            /\ r.tag = "funValue" =>
                    /\ result.kind = "ret"
                    /\ result.val.k = "handle"
                    /\ result.val.h = r.handle
                    /\ result.val.m = result.m
            /\ r.tag = "interactiveError" =>
                    Raised("CryptolError") /\ result.val.msg = r.text
            /\ r.tag \notin {"value", "funValue", "interactiveError"} =>
                    /\ Raised("PycryptolInternalError")
                    /\ result.val.exc \notin CryptolErrors

C14_Witness ==
    /\ Answered("eval")
    /\ result.rep.tag = "other"
    /\ Raised("PycryptolInternalError")

\* C15: applying a function raises as eval does: an `interactiveError` reply
\* to applyFun raises CryptolError with the server's text, and
\* PycryptolInternalError is raised only for a tag other than `value`,
\* `funValue` and `interactiveError` (or by the decoder, for a value it
\* does not know).
C15_ApplyErrors ==
    Answered("apply") =>
        /\ result.rep.tag = "interactiveError" =>
                Raised("CryptolError") /\ result.val.msg = result.rep.text
        /\ Raised("PycryptolInternalError") =>
                \/ result.rep.tag \notin {"value", "funValue", "interactiveError"}
                \/ /\ result.rep.tag = "value"
                   /\ from_value(result.rep.val) = PyRaise("PycryptolInternalError")

\* A function the caller applies by calling it with one argument.
OneArgument(fn) == fn.k = "handle" /\ fn.kind \in {"static", "method"}

\* C16: an application answered by `funValue` returns a function for the
\* reply's handle on the same module that is itself applied to one argument,
\* whether the applied function came from decl(), from eval, or is a member
\* of the module object.
C16_Curried ==
    (Answered("apply") /\ result.rep.tag = "funValue") =>
        /\ result.kind = "ret"
        /\ result.val.h = result.rep.handle
        /\ result.val.m = result.m
        /\ OneArgument(result.val)

\* The reply a step of __try_recv_json handed to the call.
StepReply == IF pc' = "idle" THEN result'.rep ELSE cur'.rep

\* C17: when the reply to the load request is not `ok`, the construction
\* raises ModuleLoadError, no further request goes out on the module socket,
\* nothing is bound, and the session's list of modules is as before; the
\* module that failed to load is never used afterwards.
C17_LoadRefused ==
    /\ [][(pc = "wait" /\ cur.phase = "load" /\ StepReply.tag # "ok") =>
              /\ pc' = "idle"
              /\ result'.kind = "raise"
              /\ result'.val.exc = ModuleLoadError
              /\ result'.op = "load"
              /\ mods'[cur.m].req.pend = <<>>
              /\ DOMAIN mods'[cur.m].decls = {}
              /\ DOMAIN mods'[cur.m].members = {}
              /\ mods'[cur.m].st = "garbage"
              /\ loaded_modules' = loaded_modules]_vars
    /\ [][\A m \in ModuleIds :
              mods[m].st = "garbage" =>
                  /\ mods'[m].st \in {"garbage", "gone"}
                  /\ mods'[m].decls = mods[m].decls
                  /\ mods'[m].members = mods[m].members
                  /\ \A i \in DOMAIN mods'[m].req.pend :
                         mods'[m].req.pend[i].tag \notin {"browse", "evalExpr"}]_vars

C17_Witness ==
    /\ pc = "idle"
    /\ result.op = "load"
    /\ result.m = 2
    /\ result.rep.tag = "interactiveError"
    /\ result.val.exc = ModuleLoadError
    /\ mods[2].st = "garbage"
    /\ mods[2].cat = <<>>
    /\ mods[2].req.pend = <<>>
    /\ loaded_modules = <<1>>

\* C18: sat answered by a `sat` reply whose assignments decode: with
\* sat_num == 1 the result is a SatResult, unsatisfiable for no assignment,
\* satisfiable with the decoded assignment for one, and
\* PycryptolInternalError is raised for more than one; with any other
\* sat_num the result is an AllSatResult, satisfiable iff the reply has an
\* assignment, holding the decoded assignments in the order of the reply.
C18_SatMapping ==
    (Answered("sat") /\ result.rep.tag = "sat") =>
        LET as == result.rep.list
            ws == [i \in DOMAIN as |-> DecodeArgs(as[i].args)]
            n == Len(as)
        IN  ~AnyRaise(ws) =>
              IF result.opt = PyInt(1)
              THEN /\ n = 0 => /\ result.kind = "ret"
                               /\ result.val.cls = "SatResult"
                               /\ ~is_sat(result.val)
                   /\ n = 1 => /\ result.kind = "ret"
                               /\ result.val.cls = "SatResult"
                               /\ is_sat(result.val)
                               /\ result.val.payload = ws[1]
                   /\ n > 1 => Raised("PycryptolInternalError")
              ELSE /\ result.kind = "ret"
                   /\ result.val.cls = "AllSatResult"
                   /\ is_sat(result.val) <=> n >= 1
                   /\ n >= 1 => result.val.payload = PyList(ws)

C18_Witness ==
    /\ Answered("sat")
    /\ result.rep.tag = "sat"
    /\ result.opt = PyInt(2)
    /\ Len(result.rep.list) = 2
    /\ result.kind = "ret"
    /\ result.val.payload =
           PyList(<<PyTuple(<<PyBool(FALSE)>>), PyTuple(<<PyBool(TRUE)>>)>>)

\* C19: prove maps the reply to its outcome: a `prove` reply without a
\* counterexample returns a valid ProofResult, one with a counterexample
\* that decodes returns an invalid ProofResult holding the decoded tuple,
\* `proverError` raises ProverError, `interactiveError` raises CryptolError,
\* and any other tag raises PycryptolInternalError.
C19_ProveMapping ==
    Answered("prove") =>
        LET r == result.rep
            cex == DecodeArgs(r.list)
        IN  /\ (r.tag = "prove" /\ r.null) =>
                    /\ result.kind = "ret"
                    /\ result.val.cls = "ProofResult"
                    /\ is_valid(result.val)
                    /\ ~has_counterexample(result.val)
            /\ (r.tag = "prove" /\ ~r.null /\ ~IsRaise(cex)) =>
                    /\ result.kind = "ret"
                    /\ result.val.cls = "ProofResult"
                    /\ ~is_valid(result.val)
                    /\ result.val.payload = cex
            /\ r.tag = "proverError" =>
                    Raised("ProverError") /\ result.val.msg = r.text
            /\ r.tag = "interactiveError" =>
                    Raised("CryptolError") /\ result.val.msg = r.text
            /\ r.tag \notin {"prove", "proverError", "interactiveError"} =>
                    Raised("PycryptolInternalError")

C19_Witness ==
    /\ Answered("prove")
    /\ result.rep.tag = "prove"
    /\ ~result.rep.null
    /\ result.kind = "ret"
    /\ ~is_valid(result.val)
    /\ result.val.payload =
           PyTuple(<<PyBV(MaxWordWidth, MaxWordValue % Pow2(MaxWordWidth)),
                     PyBool(FALSE)>>)

\* The value the constructor recorded for declaration d of the catalogue of
\* module md: a function to call with one argument, or a decoded value.
RecordedAtLoad(md, v, name) ==
    /\ \E i \in DOMAIN md.cat : md.cat[i].name = name /\ md.cat[i].tvars = <<>>
    /\ v = md.decls[name]
    /\ v.k = "handle" => (v.kind = "static" /\ v.h \in world.handles)
    /\ v.k # "handle" => \E w \in world.wires : v = from_value(w)

\* C20: decl(name) returns the value recorded at load time for a name of the
\* lookup table and raises NotInScope for any other name; either way it
\* sends no request and changes no state of the session or of a module.
C20_DeclLookup ==
    /\ []((pc = "idle" /\ result.op = "decl") =>
             LET md == mods[result.m]
             IN  IF result.opt \in DOMAIN md.decls
                 THEN /\ result.kind = "ret"
                      /\ RecordedAtLoad(md, result.val, result.opt)
                 ELSE Raised(NotInScope))
    /\ [][(pc = "idle" /\ result'.op = "decl") =>
              /\ pc' = "idle"
              /\ mods' = mods
              /\ UNCHANGED <<mainReq, loaded_modules, server, ctxClosed,
                             nloads, nports>>]_vars

C20_Witness ==
    /\ pc = "idle"
    /\ result.op = "decl"
    /\ result.opt = <<"+">>
    /\ result.kind = "ret"
    /\ result.val.k = "handle"
    /\ DOMAIN mods[result.m].members = {}
    /\ mods[result.m].req.pend = <<>>

\* The step in which __new_client returns and the module object of the call
\* in progress is constructed.
Constructs(m) == mods[m].st = "none" /\ mods'[m].st # "none"

\* C21: a load_module / prelude call has one `connect` outstanding on the
\* control socket, and no module socket yet, until the reply is received;
\* the module socket is then connected to the port of that reply and its
\* first message is the load request (loadModule with the file path, or
\* loadPrelude); a construction that returns is recorded in the session's
\* list, and nothing else is; no two modules share a port.
C21_LoadSequence ==
    /\ [](pc = "connect" =>
             /\ cur.op = "load"
             /\ mods[cur.m].st = "none"
             /\ Len(mainReq.pend) = 1
             /\ Head(mainReq.pend).tag = "connect")
    /\ [][\A m \in ModuleIds : Constructs(m) =>
              /\ pc = "connect" /\ cur.m = m
              /\ mainReq'.pend = <<>>
              /\ mods'[m].port = Head(mainReq.pend).port
              /\ ~mods'[m].req.closed
              /\ mods'[m].req.pend = <<MsgLoad(cur.opt)>>
              /\ MsgLoad(cur.opt).tag =
                     (IF cur.opt = "-" THEN "loadPrelude" ELSE "loadModule")
              /\ MsgLoad(cur.opt).path = cur.opt]_vars
    /\ [][(cur.op = "load" /\ pc # "idle" /\ pc' = "idle" /\ result'.kind = "ret")
              => loaded_modules' = Append(loaded_modules, cur.m)]_vars
    /\ [][loaded_modules' # loaded_modules =>
              /\ cur.op = "load" /\ pc' = "idle" /\ result'.kind = "ret"
              /\ loaded_modules' = Append(loaded_modules, cur.m)]_vars
    /\ [](\A m1, m2 \in ModuleIds :
             (m1 # m2 /\ mods[m1].st # "none" /\ mods[m2].st # "none") =>
                 mods[m1].port # mods[m2].port)
    /\ [](\A i, j \in DOMAIN loaded_modules :
             i # j => loaded_modules[i] # loaded_modules[j])

C21_Witness ==
    /\ pc = "wait"
    /\ cur.phase = "load"
    /\ cur.m = 2
    /\ mods[2].req.pend = <<MsgLoad("A.cry")>>
    /\ mods[2].port = nports
    /\ mainReq.pend = <<>>
    /\ loaded_modules = <<1>>
    /\ intrCount >= 1

\* The operations that take an expression and its arguments.
ExprOps == {"eval", "typeof", "check", "exhaust", "prove", "sat"}

\* The TypeErrors of template that tell of a wrong number of arguments.
TemplateArityError == {TooFewArgs, TooManyArgs}

ArityDiffers(inp) == Len(TemplateArgs(inp.args)) # CountHoles(inp.expr)

\* The call got as far as template: no send on the socket was refused and
\* no receive interrupted.
ReachedTemplate == result.val \notin {Exc("ZMQError", 0)} /\ result.fail = 0

\* C22: a call of eval, typeof, check, exhaust, prove or sat with a string
\* for expression, once it reaches template, ends in its arity error
\* exactly when the number of `?` in the expression differs from the number
\* of arguments, a single argument that is no tuple counting as one.
C22_TemplateArity ==
    (pc = "idle" /\ result.op \in ExprOps /\ result.inp.isstr
       /\ ReachedTemplate) =>
        ((Raised("TypeError") /\ result.val.msg \in TemplateArityError)
            <=> ArityDiffers(result.inp))

C22_Witness ==
    /\ pc = "idle"
    /\ result.op = "sat"
    /\ result.inp.isstr
    /\ result.inp.args = PyTuple(<<PyBV(MaxBvWidth, 1)>>)
    /\ CountHoles(result.inp.expr) = 0
    /\ Raised("TypeError")
    /\ result.val.msg = TooManyArgs

\* C23: once the construction of a module has returned, no step changes its
\* lookup table or its bound members, whichever operation is called on it.
C23_DeclsImmutable ==
    [][\A m \in ModuleIds :
          mods[m].st = "live" =>
              /\ mods'[m].decls = mods[m].decls
              /\ mods'[m].members = mods[m].members]_vars

C23_Witness ==
    /\ pc = "idle"
    /\ result.op = "browse"
    /\ result.kind = "ret"
    /\ mods[result.m].st = "live"
    /\ DOMAIN mods[result.m].decls = {<<"f">>}
    /\ DOMAIN mods[result.m].members = {<<"f">>}

\* The request a step puts on the socket of module m, if any.
Sends(m) ==
    mods'[m].req.pend # <<>> /\ mods'[m].req.pend # mods[m].req.pend

\* The step receives the reply to the request msg of the call in progress on
\* module m.
Answers(m, msg) ==
    pc = "wait" /\ cur.m = m /\ mods[m].req.pend = <<msg>>

\* C24: prove begins with the setOpt request for the prover and sends the
\* prove request in the step that receives its reply; sat begins with the
\* setOpt request for satNum (str of the count, or 'all' for None), sends
\* the one for the prover in the step that receives the reply to the first,
\* and the sat request in the step that receives the reply to the second.
C24_OptionsFirst ==
    [][\A m \in ModuleIds : Sends(m) =>
          LET msg == Head(mods'[m].req.pend)
              c == cur'
          IN  /\ (pc = "idle" /\ c.op = "prove") =>
                      msg = MsgOpt("prover", c.prover)
              /\ msg.tag = "prove" =>
                      /\ cur.op = "prove"
                      /\ Answers(m, MsgOpt("prover", cur.prover))
              /\ (pc = "idle" /\ c.op = "sat") =>
                      /\ msg.tag = "setOpt" /\ msg.key = "satNum"
                      /\ msg.value = (IF c.opt = PyNone THEN "all"
                                      ELSE IntStr(c.opt.v))
              /\ (pc = "wait" /\ c.op = "sat" /\ msg.tag = "setOpt") =>
                      /\ msg = MsgOpt("prover", cur.prover)
                      /\ Answers(m, MsgOpt("satNum", SatNumOption(cur.opt)))
              /\ msg.tag = "sat" =>
                      /\ cur.op = "sat"
                      /\ Answers(m, MsgOpt("prover", cur.prover))
                      /\ cur.phase = "sat_opt2"]_vars

C24_Witness ==
    /\ pc = "wait"
    /\ cur.op = "sat"
    /\ cur.opt = PyNone
    /\ cur.prover = "z3"
    /\ mods[cur.m].req.pend = <<Msg("sat")>>

\* The arguments inp are misused: they are too few or too many for the
\* expression, or one of them has no rendering.
Misuse(inp) == inp.isstr /\ Template(inp.expr, inp.args) # "ok"

\* C25: prove and sat called with misused arguments send nothing: such a
\* call is never waiting for a reply, and it ends in TypeError without
\* having received any.
C25_MisuseSendsNothing ==
    /\ (pc = "wait" /\ cur.op \in {"prove", "sat"}) => ~Misuse(cur.inp)
    /\ (pc = "idle" /\ result.op \in {"prove", "sat"} /\ Misuse(result.inp)) =>
            Raised("TypeError") /\ result.rep = NoRep

\* The operations whose first request is the expression itself.
PlainOps == {"eval", "typeof", "check", "exhaust"}

\* The call c fails before it sends: the expression is no string or its
\* arguments are misused, or the argument of an application has no encoding.
FailsLocally(c) ==
    \/ c.op \in PlainOps /\ TagExprLocal(c.inp) # "ok"
    \/ c.op = "apply" /\ IsRaise(to_value(c.inp.args))

\* C26: a call of eval, typeof, check or exhaust that fails locally, and an
\* application whose argument has no encoding, never wait for a reply; the
\* step that makes such a call raises at once and leaves every module, the
\* control socket and the session as they were.
C26_LocalFailureFrame ==
    /\ [](pc = "wait" => ~FailsLocally(cur))
    /\ [][(pc = "idle" /\ result' # result /\ FailsLocally(result')) =>
              /\ pc' = "idle"
              /\ result'.kind = "raise"
              /\ result'.val.exc \in {"TypeError", "ValueError"}
              /\ result'.rep = NoRep
              /\ mods' = mods
              /\ UNCHANGED <<mainReq, loaded_modules, server, ctxClosed>>]_vars

C26_Witness ==
    /\ pc = "idle"
    /\ result.op = "apply"
    /\ result.inp.args = PyStr
    /\ Raised("ValueError")
    /\ mods[result.m].st = "live"
    /\ mods[result.m].req = NewSocket

\* C27: binding never puts a member in the place of an attribute the module
\* object had before (its operations are the original ones at every point
\* of the construction and after it), and in a loaded module a monomorphic
\* declaration that is infix, is no valid identifier or bears the name of
\* such an attribute is in the lookup table and is no member.
C27_NoOverwrite ==
    \A m \in ModuleIds :
        /\ DOMAIN mods[m].members \cap ClassAttrs = {}
        /\ Loaded(m) =>
               \A i \in DOMAIN mods[m].cat :
                   LET d == mods[m].cat[i]
                   IN  (Monomorphic(d) /\ (\/ d.infix
                                           \/ ~IsIdentifier(d.name)
                                           \/ d.name \in ClassAttrs)) =>
                           /\ d.name \in DOMAIN mods[m].decls
                           /\ d.name \notin DOMAIN mods[m].members

C27_Witness ==
    \E m \in ModuleIds :
        /\ Loaded(m)
        /\ mods[m].cat = <<Decl(<<"e", "v", "a", "l">>, FALSE, <<>>),
                           Decl(<<"x", "'">>, FALSE, <<>>)>>
        /\ DOMAIN mods[m].decls = {<<"e", "v", "a", "l">>, <<"x", "'">>}
        /\ DOMAIN mods[m].members = {}

\* The module the call of a step is made on.
Acting == IF pc # "idle" THEN cur.m ELSE IF pc' # "idle" THEN cur'.m ELSE result'.m

\* C28: a step of a call on one module (its loading included) changes no
\* other module object, neither members nor lookup table nor socket, and
\* sends on no other socket; every function a module holds or returns is
\* bound to that module.
C28_Isolation ==
    /\ [][\A m \in ModuleIds : m # Acting =>
              /\ mods'[m] = mods[m]
              /\ ~Sends(m)]_vars
    /\ [](\A m \in ModuleIds : \A fn \in HeldHandles(m) : fn.m = m)
    /\ []((pc = "idle" /\ result.kind = "ret" /\ "kind" \in DOMAIN result.val)
             => result.val.m = result.m)

C28_Witness ==
    /\ pc = "idle"
    /\ result.op = "apply"
    /\ result.m = 2
    /\ result.kind = "ret"
    /\ Loaded(1) /\ Loaded(2)
    /\ DOMAIN mods[1].members = {<<"f">>}
    /\ DOMAIN mods[2].members = {<<"f">>}
    /\ mods[1].req.pend = <<>>

\* The steps in which the program calls send_json on the control socket for
\* a `connect` (__new_client) or an `interrupt` (the handler of
\* __try_recv_json).
ConnectAttempt == pc = "idle" /\ nloads' = nloads + 1
InterruptAttempt == pc = "wait" /\ intrCount' = intrCount + 1

IsFunction(w) == "function" \in DOMAIN w

\* The elements of s that are no function decode, each to a value.
OthersDecode(s) ==
    \A i \in DOMAIN s : ~IsFunction(s[i]) => ~IsRaise(from_value(s[i]))

\* The decoded elements of s, None standing for each function.
DecodedWithGaps(s) ==
    [i \in DOMAIN s |-> IF IsFunction(s[i]) THEN PyNone ELSE from_value(s[i])]

\* A callable occurs in the local value v.
RECURSIVE HasCallable(_)
HasCallable(v) ==
    IF v.k = "handle" THEN TRUE
    ELSE IF v.k \in {"tuple", "list"} THEN
        \E i \in DOMAIN v.elts : HasCallable(v.elts[i])
    ELSE IF v.k = "dict" THEN
        \E n \in DOMAIN v.items : HasCallable(v.items[n])
    ELSE FALSE

\* C30: a tuple, record or sequence with a `function` among its elements,
\* the others decoding, decodes to the aggregate of the decoded elements
\* with None in the place of each function; the decoder never yields a
\* callable, at any depth.
C30_NestedFunction ==
    cPc = "out" =>
        /\ ("tuple" \in DOMAIN cWire /\ OthersDecode(cWire.tuple)
              /\ \E i \in DOMAIN cWire.tuple : IsFunction(cWire.tuple[i])) =>
                cOut = PyTuple(DecodedWithGaps(cWire.tuple))
        /\ ("sequence" \in DOMAIN cWire /\ ~cWire.sequence.isWord
              /\ OthersDecode(cWire.sequence.elements)
              /\ \E i \in DOMAIN cWire.sequence.elements :
                     IsFunction(cWire.sequence.elements[i])) =>
                cOut = PyList(DecodedWithGaps(cWire.sequence.elements))
        /\ "record" \in DOMAIN cWire =>
                LET fs == cWire.record
                    vals == [i \in DOMAIN fs |-> fs[i][2]]
                IN  (OthersDecode(vals) /\ \E i \in DOMAIN fs : IsFunction(vals[i])) =>
                        /\ cOut.k = "dict"
                        /\ DOMAIN cOut.items = {fs[i][1].Name : i \in DOMAIN fs}
                        /\ \A i \in DOMAIN fs :
                               (\A j \in DOMAIN fs :
                                    fs[j][1].Name = fs[i][1].Name => j <= i) =>
                                   cOut.items[fs[i][1].Name] =
                                       DecodedWithGaps(vals)[i]
        /\ ~IsRaise(cOut) => ~HasCallable(cOut)

C30_Witness ==
    /\ cPc = "out"
    /\ cWire = WTuple(<<WFun("h"), WBit(TRUE)>>)
    /\ cOut = PyTuple(<<PyNone, PyBool(TRUE)>>)

====
